---- MODULE Spec2Model ----
(***************************************************************************)
(* Model of the katelect polling front end: the EWMA smoothing function,   *)
(* the vote-share normaliser, the client-side smoothing chart, the         *)
(* API-backed chart and their zoom-window filter.                          *)
(*                                                                         *)
(* Numbers: poll values are integers (percent); every derived value is an  *)
(* exact rational <<n, d>> in lowest terms with d > 0.  The arithmetic of  *)
(* the source is IEEE-754 double arithmetic; the model computes the same   *)
(* expressions exactly, so rounding error is outside the model.            *)
(*                                                                         *)
(* Dates: an ISO date string "YYYY-MM-DD" is represented by its day number *)
(* (days since 1970-01-01); instants are hours since the epoch (UTC).      *)
(***************************************************************************)
EXTENDS Integers, Sequences, FiniteSets, TLC

VARIABLES
    pc,                   \* which harness step has run
    data,                 \* calculateEWMA: the caller's array
    party,                \* calculateEWMA: party key
    smoothingFactor,      \* calculateEWMA: smoothing factor (rational)
    result,               \* calculateEWMA: returned array
    ascData,              \* the same polls in stable date-ascending order
    ascResult,            \* calculateEWMA's return for ascData
    dataPoint,            \* normalizeVoteShare: argument
    normalizedDataPoint,  \* normalizeVoteShare: return value
    now,                  \* new Date(): the current instant
    utcOffset,            \* the browser's local time minus UTC, in hours
    startDate,            \* the cutoff the last zoom filter effect computed
    \* API-backed chart (component state)
    zoomLevel, averagedData, filteredAveragedData,
    region,               \* the region prop
    renderedRegion,       \* the region prop of the last committed render
    loading, error, rawData, dimensions, tooltipData,
    inFlight,             \* regions of the fetchData calls still awaiting
    pending,              \* what the state updates since the last commit ask for
    view,                 \* what the last committed render returned
    timer,                \* the setTimeout of the dimensions effect
    drawnSeries,          \* the series the drawn chart's handlers closed over
    wheelZoomLevel,       \* the zoomLevel the wheel.zoom handler closed over
    svg,                  \* what the render effect last drew into the svg
    \* client-side smoothing chart: the polls prop, the component state
    \* (cZoomLevel and cRawData are its zoomLevel and rawData) and the
    \* effects whose dependencies changed since they last ran
    polls, cZoomLevel, cRawData, allData, filteredData, cPending,
    cSvg,                 \* what the client-side chart's render effect last drew
    hoverDate,            \* the date a mousemove handler got from xScale.invert
    hovered,              \* the date string of the point that handler selected
    \* polls table (with region, loading, error, polls, inFlight, pending)
    currentPage,
    shown,                \* the messages and tables the last render returned
    \* Polls container (with region, inFlight, pending)
    latestData, errorLatest, loadingLatest

ewmaVars == <<data, party, smoothingFactor, result, ascData, ascResult>>
normVars == <<dataPoint, normalizedDataPoint>>
envVars == <<now, utcOffset>>
hoverVars == <<hoverDate, hovered>>
pageVars == <<currentPage, shown, latestData, errorLatest, loadingLatest>>
apiCompVars ==
    <<region, renderedRegion, loading, error, rawData, dimensions, tooltipData,
      inFlight, pending, view, timer, drawnSeries, wheelZoomLevel, svg>>
apiVars == <<zoomLevel, averagedData, filteredAveragedData, apiCompVars>>
clientVars ==
    <<polls, cZoomLevel, cRawData, allData, filteredData, cPending, cSvg>>
chartVars ==
    <<envVars, hoverVars, pageVars, startDate, apiVars, clientVars>>
vars == <<pc, ewmaVars, normVars, chartVars>>

----------------------------------------------------------------------------
(* Bounds of the model *)

MaxPolls == 3
MaxDay == 3
MaxShare == 2

----------------------------------------------------------------------------
(* Exact rational arithmetic *)

Abs(x) == IF x < 0 THEN -x ELSE x

RECURSIVE GCD(_, _)
GCD(a, b) == IF b = 0 THEN a ELSE GCD(b, a % b)

Norm(n, d) ==
    LET g == GCD(Abs(n), Abs(d))
        s == IF d < 0 THEN -1 ELSE 1
    IN  <<(s * n) \div g, (s * d) \div g>>

Rat(n) == <<n, 1>>
LCM(a, b) == (a \div GCD(a, b)) * b
RAdd(x, y) ==
    LET l == LCM(x[2], y[2])
    IN  Norm(x[1] * (l \div x[2]) + y[1] * (l \div y[2]), l)
RNeg(x) == <<-x[1], x[2]>>
RSub(x, y) == RAdd(x, RNeg(y))
RMul(x, y) ==
    LET a == Norm(x[1], y[2])
        b == Norm(y[1], x[2])
    IN  Norm(a[1] * b[1], a[2] * b[2])
RDiv(x, y) == RMul(x, Norm(y[2], y[1]))
RLt(x, y) == RSub(x, y)[1] < 0
RLe(x, y) == RSub(x, y)[1] <= 0

----------------------------------------------------------------------------
(* Parties and poll records *)

parties == <<"liberal", "conservative", "ndp", "bloc", "green", "ppc", "other">>
PartyKey == {parties[i] : i \in 1..Len(parties)}

\* Vote-share rows a poll can carry: a row summing to 100 and a row summing
\* to 99.
PollShares ==
    { [liberal |-> 40, conservative |-> 30, ndp |-> 15, bloc |-> 5,
       green |-> 5, ppc |-> 3, other |-> 2],
      [liberal |-> 30, conservative |-> 40, ndp |-> 16, bloc |-> 7,
       green |-> 4, ppc |-> 2, other |-> 0] }

Days == 1..MaxDay

Poll(d, s) ==
    [date |-> d, liberal |-> s.liberal, conservative |-> s.conservative,
     ndp |-> s.ndp, bloc |-> s.bloc, green |-> s.green, ppc |-> s.ppc,
     other |-> s.other]

Polls == {Poll(d, s) : d \in Days, s \in PollShares}

SeqsUpTo(S, n) == UNION {[1..k -> S] : k \in 0..n}

----------------------------------------------------------------------------
(* Dates.  The calendar is the ECMAScript one: Day(t), DayFromYear, MakeDay. *)
(* utcOffset is the browser's local time minus UTC, in hours (fixed: there   *)
(* is no daylight-saving change in the model).                              *)

IsLeapYear(y) == (y % 4 = 0 /\ y % 100 # 0) \/ y % 400 = 0
DaysInYear(y) == IF IsLeapYear(y) THEN 366 ELSE 365
DayFromYear(y) ==
    365 * (y - 1970) + ((y - 1969) \div 4) - ((y - 1901) \div 100)
        + ((y - 1601) \div 400)
DaysBeforeMonth(y, m) ==
    <<0, 31, 59, 90, 120, 151, 181, 212, 243, 273, 304, 334, 365>>[m + 1]
        + (IF m >= 2 /\ IsLeapYear(y) THEN 1 ELSE 0)

\* MakeDay(year, month, date): month and date may lie outside their ranges
MakeDay(year, month, date) ==
    LET ym == year + (month \div 12)
        mn == month % 12
    IN  DayFromYear(ym) + DaysBeforeMonth(ym, mn) + date - 1

RECURSIVE YearSearch(_, _)
YearSearch(day, y) ==
    IF DayFromYear(y) > day THEN YearSearch(day, y - 1)
    ELSE IF DayFromYear(y + 1) <= day THEN YearSearch(day, y + 1)
    ELSE y
YearFromDay(day) == YearSearch(day, 1970 + (day \div 365))
MonthFromDay(day) ==
    LET y == YearFromDay(day)
        dayInYear == day - DayFromYear(y)
    IN  CHOOSE m \in 0..11 :
            /\ DaysBeforeMonth(y, m) <= dayInYear
            /\ dayInYear < DaysBeforeMonth(y, m + 1)
DateFromDay(day) ==
    LET y == YearFromDay(day)
    IN  day - DayFromYear(y) - DaysBeforeMonth(y, MonthFromDay(day)) + 1

\* the local calendar day an instant falls on
LocalDay(t, utcOff) == (t + utcOff) \div 24
getFullYear(t, utcOff) == YearFromDay(LocalDay(t, utcOff))
getMonth(t, utcOff) == MonthFromDay(LocalDay(t, utcOff))
getDate(t, utcOff) == DateFromDay(LocalDay(t, utcOff))

\* new Date(year, monthIndex, day): local midnight of the normalised date
NewDateYMD(year, month, date, utcOff) == MakeDay(year, month, date) * 24 - utcOff

\* new Date("YYYY-MM-DD").getTime(): a date-only ISO string is UTC midnight.
NewDateOfString(dateStr) == dateStr * 24

\* d3.timeParse('%Y-%m-%d')(dateStr): local midnight of that date
d3TimeParse(dateStr, utcOff) == dateStr * 24 - utcOff

\* a date string no parser accepts, and the null a failed parse returns
InvalidDateString == -1000000
null == -2000000000
\* the null of the string-typed error state
nullError == "null"
\* the client-side chart's svg element without children
emptyClientSvg ==
    [series |-> <<>>, markers |-> <<>>, yMax |-> null, majorityLine |-> FALSE]
\* an svg element without children
emptySvg ==
    [relevantRawData |-> <<>>, finalYMax |-> null, majorityLine |-> FALSE]

safeParseDateISO(dateStr, utcOff) ==
    IF dateStr = InvalidDateString THEN null ELSE d3TimeParse(dateStr, utcOff)

----------------------------------------------------------------------------
(* Array.prototype.sort: stable, ascending by key.  keys[i] is the key of  *)
(* element i; the result lists the indices in sorted order.                *)

SortOrder(keys) ==
    LET n == Len(keys)
        rank(i) == Cardinality({j \in 1..n :
                       keys[j] < keys[i] \/ (keys[j] = keys[i] /\ j < i)}) + 1
    IN  SubSeq([r \in 1..n |-> CHOOSE i \in 1..n : rank(i) = r], 1, n)

Permute(s, order) == SubSeq([r \in 1..Len(s) |-> s[order[r]]], 1, Len(s))

----------------------------------------------------------------------------
(* calculateEWMA *)

\* a calculateEWMA that trusts the caller's order
sortedDataTrustingCaller(d) == d

\* [...data].sort((a, b) => new Date(a.date).getTime() - new Date(b.date).getTime())
sortedData(d) ==
    Permute(d, SortOrder([i \in 1..Len(d) |-> NewDateOfString(d[i].date)]))

\* the caller's array once calculateEWMA has returned: the sort worked on a copy
dataAfterCalculateEWMA(d) == d

\* a loop that smooths against the previous raw value, not the previous EWMA
RECURSIVE ewmaLoopPreviousRaw(_, _, _, _, _)
ewmaLoopPreviousRaw(sorted, p, sf, i, res) ==
    IF i > Len(sorted) THEN res
    ELSE LET currentValue == Rat(sorted[i][p])
             previousEWMA == Rat(sorted[i - 1][p])
             newEWMA == RAdd(previousEWMA,
                             RMul(sf, RSub(currentValue, previousEWMA)))
         IN  ewmaLoopPreviousRaw(sorted, p, sf, i + 1, Append(res, newEWMA))

\* a loop whose correction term has the wrong sign
RECURSIVE ewmaLoopWrongSign(_, _, _, _, _)
ewmaLoopWrongSign(sorted, p, sf, i, res) ==
    IF i > Len(sorted) THEN res
    ELSE LET currentValue == Rat(sorted[i][p])
             previousEWMA == res[i - 1]
             newEWMA == RAdd(previousEWMA,
                             RMul(sf, RSub(previousEWMA, currentValue)))
         IN  ewmaLoopWrongSign(sorted, p, sf, i + 1, Append(res, newEWMA))

RECURSIVE ewmaLoop(_, _, _, _, _)
ewmaLoop(sorted, p, sf, i, res) ==
    IF i > Len(sorted) THEN res
    ELSE LET currentValue == Rat(sorted[i][p])
             previousEWMA == res[i - 1]
             newEWMA == RAdd(previousEWMA,
                             RMul(sf, RSub(currentValue, previousEWMA)))
         IN  ewmaLoop(sorted, p, sf, i + 1, Append(res, newEWMA))

\* the value of the parameter "smoothingFactor: number = 0.25": Omitted stands
\* for a call that passes no third argument
Omitted == <<>>
defaultSmoothingFactor == <<1, 4>>
smoothingFactorParam(sf) == IF sf = Omitted THEN defaultSmoothingFactor ELSE sf

calculateEWMA(d, p, sf) ==
    IF Len(d) = 0 THEN <<>>
    ELSE LET sorted == sortedData(d)
         IN  ewmaLoop(sorted, p, smoothingFactorParam(sf), 2,
                      <<Rat(sorted[1][p])>>)

\* third arguments the harness passes: none (0.25), 0.5, 0.75
SmoothingFactors == {Omitted, <<1, 2>>, <<3, 4>>}

----------------------------------------------------------------------------
(* normalizeVoteShare *)

\* JavaScript's "/" on numbers: a zero divisor gives NaN or Infinity
NaN == <<0, 0>>
Infinity == <<1, 0>>
Divide(x, y) ==
    IF y[1] = 0 THEN (IF x[1] = 0 THEN NaN ELSE Infinity) ELSE RDiv(x, y)

\* a reduce that leaves the last party ('other') out of the total
RECURSIVE reduceSumWithoutOther(_, _, _)
reduceSumWithoutOther(dp, i, sum) ==
    IF i > Len(parties) - 1 THEN sum
    ELSE reduceSumWithoutOther(dp, i + 1, RAdd(sum, dp[parties[i]]))

\* parties.reduce((sum, party) => sum + dataPoint[party], 0)
RECURSIVE reduceSum(_, _, _)
reduceSum(dp, i, sum) ==
    IF i > Len(parties) THEN sum
    ELSE reduceSum(dp, i + 1, RAdd(sum, dp[parties[i]]))

\* (x / total) * 100; NaN and Infinity stay what they are
Percent(x, total) ==
    LET q == Divide(x, total)
    IN  IF q[2] = 0 THEN q ELSE RMul(q, Rat(100))

\* { ...dataPoint } with every party's value replaced by its percentage
scaledDataPoint(dp, total) ==
    [date |-> dp.date,
     liberal |-> Percent(dp.liberal, total),
     conservative |-> Percent(dp.conservative, total),
     ndp |-> Percent(dp.ndp, total),
     bloc |-> Percent(dp.bloc, total),
     green |-> Percent(dp.green, total),
     ppc |-> Percent(dp.ppc, total),
     other |-> Percent(dp.other, total)]

\* a normaliser with no guard on a zero total
normalizeVoteShareUnguarded(dp) ==
    scaledDataPoint(dp, reduceSum(dp, 1, Rat(0)))

normalizeVoteShare(dp) ==
    LET total == reduceSum(dp, 1, Rat(0))
    IN  IF total = Rat(0) THEN dp ELSE scaledDataPoint(dp, total)

----------------------------------------------------------------------------
(* Zoom window filter *)

\* an averaged point of date d carrying the shares s
AveragedDataPoint(d, s) ==
    [date |-> d, liberal |-> Rat(s.liberal),
     conservative |-> Rat(s.conservative), ndp |-> Rat(s.ndp),
     bloc |-> Rat(s.bloc), green |-> Rat(s.green), ppc |-> Rat(s.ppc),
     other |-> Rat(s.other)]

\* the switch of the API-backed chart: 0 = all data, 1 = 1 year,
\* 2 = 6 months, 3 = 3 months, 4 = 1 month, anything else 3 months
apiStartDate(zoom, t, utcOff) ==
    LET y == getFullYear(t, utcOff)
        m == getMonth(t, utcOff)
        d == getDate(t, utcOff)
    IN  CASE zoom = 0 -> 0
          [] zoom = 1 -> NewDateYMD(y - 1, m, d, utcOff)
          [] zoom = 2 -> NewDateYMD(y, m - 6, d, utcOff)
          [] zoom = 3 -> NewDateYMD(y, m - 3, d, utcOff)
          [] zoom = 4 -> NewDateYMD(y, m - 1, d, utcOff)
          [] OTHER -> NewDateYMD(y, m - 3, d, utcOff)

\* a filter that hands the kept points back newest first
apiZoomFilterNewestFirst(avg, zoom, t, utcOff) ==
    IF Len(avg) = 0 THEN <<>>
    ELSE LET keep(d) ==
                 LET date == safeParseDateISO(d.date, utcOff)
                 IN  date # null /\ date >= apiStartDate(zoom, t, utcOff)
             kept == SelectSeq(avg, keep)
         IN  SubSeq([i \in 1..Len(kept) |-> kept[Len(kept) + 1 - i]],
                    1, Len(kept))

\* a filter without the test for null: in the comparison with startDate a
\* null date counts as the number 0
apiZoomFilterWithoutNullCheck(avg, zoom, t, utcOff) ==
    IF Len(avg) = 0 THEN <<>>
    ELSE LET keep(d) ==
                 LET date == safeParseDateISO(d.date, utcOff)
                 IN  (IF date = null THEN 0 ELSE date)
                         >= apiStartDate(zoom, t, utcOff)
         IN  SelectSeq(avg, keep)

\* averagedData.filter(d => date !== null && date >= startDate), or [] when
\* there is no base data
apiZoomFilter(avg, zoom, t, utcOff) ==
    IF Len(avg) = 0 THEN <<>>
    ELSE LET keep(d) ==
                 LET date == safeParseDateISO(d.date, utcOff)
                 IN  date # null /\ date >= apiStartDate(zoom, t, utcOff)
         IN  SelectSeq(avg, keep)

\* the switch of the client-side chart: 1 = 1 year, 2 = 6 months,
\* 3 = 3 months, 4 = 1 month, anything else 3 months
clientStartDate(zoom, t, utcOff) ==
    LET y == getFullYear(t, utcOff)
        m == getMonth(t, utcOff)
        d == getDate(t, utcOff)
    IN  CASE zoom = 1 -> NewDateYMD(y - 1, m, d, utcOff)
          [] zoom = 2 -> NewDateYMD(y, m - 6, d, utcOff)
          [] zoom = 3 -> NewDateYMD(y, m - 3, d, utcOff)
          [] zoom = 4 -> NewDateYMD(y, m - 1, d, utcOff)
          [] OTHER -> NewDateYMD(y, m - 3, d, utcOff)

\* allData.filter(d => new Date(d.date) >= startDate); with no data the
\* effect returns before it sets anything
clientZoomFilter(all, zoom, t, utcOff, previous) ==
    IF Len(all) = 0 THEN previous
    ELSE LET keep(d) ==
                 NewDateOfString(d.date) >= clientStartDate(zoom, t, utcOff)
         IN  SelectSeq(all, keep)

----------------------------------------------------------------------------
(* Client-side smoothing chart: the "process data when polls change" effect *)

\* polls.map(parsedDate).sort((a, b) => a.parsedDate - b.parsedDate)
parsedSortedPolls(ps, utcOff) ==
    Permute(ps, SortOrder([i \in 1..Len(ps) |-> d3TimeParse(ps[i].date, utcOff)]))

\* the keys of dateMap in insertion order: each date once, at its first poll
dateMapKeys(sorted) ==
    LET isFirst(i) == \A j \in 1..(i - 1) : sorted[j].date # sorted[i].date
        firsts == SelectSeq([i \in 1..Len(sorted) |-> i], isFirst)
    IN  SubSeq([k \in 1..Len(firsts) |-> sorted[firsts[k]].date],
               1, Len(firsts))

\* an assignment that keeps the value of the first poll of a date
firstPollOfDate(sorted, dateStr) ==
    CHOOSE i \in 1..Len(sorted) :
        /\ sorted[i].date = dateStr
        /\ \A j \in 1..(i - 1) : sorted[j].date # dateStr

\* the index of the last poll of a date: its assignment to dateMap wins
lastPollOfDate(sorted, dateStr) ==
    CHOOSE i \in 1..Len(sorted) :
        /\ sorted[i].date = dateStr
        /\ \A j \in (i + 1)..Len(sorted) : sorted[j].date # dateStr

\* dateMap once every party's EWMA values are assigned, before normalising
ewmaDateMap(sorted) ==
    LET keys == dateMapKeys(sorted)
        ewmaValues ==
            [liberal |-> calculateEWMA(sorted, "liberal", defaultSmoothingFactor),
             conservative |->
                 calculateEWMA(sorted, "conservative", defaultSmoothingFactor),
             ndp |-> calculateEWMA(sorted, "ndp", defaultSmoothingFactor),
             bloc |-> calculateEWMA(sorted, "bloc", defaultSmoothingFactor),
             green |-> calculateEWMA(sorted, "green", defaultSmoothingFactor),
             ppc |-> calculateEWMA(sorted, "ppc", defaultSmoothingFactor),
             other |-> calculateEWMA(sorted, "other", defaultSmoothingFactor)]
        point(k) ==
            LET index == lastPollOfDate(sorted, keys[k])
            IN  [date |-> keys[k],
                 liberal |-> ewmaValues.liberal[index],
                 conservative |-> ewmaValues.conservative[index],
                 ndp |-> ewmaValues.ndp[index],
                 bloc |-> ewmaValues.bloc[index],
                 green |-> ewmaValues.green[index],
                 ppc |-> ewmaValues.ppc[index],
                 other |-> ewmaValues.other[index]]
    IN  SubSeq([k \in 1..Len(keys) |-> point(k)], 1, Len(keys))

\* Array.from(dateMap.values()).sort(by new Date(date))
sortedByDate(points) ==
    Permute(points,
            SortOrder([i \in 1..Len(points) |-> NewDateOfString(points[i].date)]))

\* an effect that keeps one averaged point per poll instead of per date
ewmaDataPerPoll(ps, utcOff) ==
    LET sorted == parsedSortedPolls(ps, utcOff)
        point(i) ==
            [f \in PartyKey \cup {"date"} |->
                IF f = "date" THEN sorted[i].date
                ELSE calculateEWMA(sorted, f, defaultSmoothingFactor)[i]]
    IN  SubSeq([i \in 1..Len(sorted) |-> normalizeVoteShare(point(i))],
               1, Len(sorted))

\* ewmaData, the value the effect passes to setAllData
ewmaData(ps, utcOff) ==
    LET dateMap == ewmaDateMap(parsedSortedPolls(ps, utcOff))
    IN  sortedByDate(SubSeq([k \in 1..Len(dateMap) |->
                                normalizeVoteShare(dateMap[k])],
                            1, Len(dateMap)))

----------------------------------------------------------------------------
(* Harness for calculateEWMA *)

EwmaIdle ==
    /\ data = <<>> /\ party = "liberal"
    /\ smoothingFactor = Omitted
    /\ result = <<>> /\ ascData = <<>> /\ ascResult = <<>>

NormIdle ==
    /\ dataPoint = [date |-> 0] /\ normalizedDataPoint = [date |-> 0]

\* the API-backed chart's remaining state when it is not mounted
ApiUnmounted ==
    /\ region = "federal" /\ renderedRegion = "none"
    /\ loading = TRUE /\ error = nullError /\ rawData = <<>>
    /\ dimensions = 0 /\ tooltipData = null
    /\ inFlight = <<>> /\ pending = {} /\ view = "none" /\ timer = "none"
    /\ drawnSeries = <<>> /\ wheelZoomLevel = null /\ svg = emptySvg

HoverIdle == hoverDate = 0 /\ hovered = null

\* the null of the LatestPollingData-typed state
nullLatestData ==
    [latestValues |-> [k \in {"liberal", "conservative", "ndp", "bloc",
                              "green", "ppc", "other"} |-> null],
     changes |-> [k \in {"liberal", "conservative", "ndp", "bloc",
                         "green", "ppc", "other"} |-> null]]

\* no polls table and no Polls container mounted
PageIdle ==
    /\ currentPage = 1 /\ shown = {}
    /\ latestData = nullLatestData
    /\ errorLatest = nullError /\ loadingLatest = TRUE

\* a chart that is not mounted
ChartIdle ==
    /\ ApiUnmounted /\ HoverIdle /\ PageIdle
    /\ now = 0 /\ utcOffset = 0 /\ startDate = 0
    /\ zoomLevel = 3 /\ averagedData = <<>> /\ filteredAveragedData = <<>>
    /\ polls = <<>> /\ cRawData = <<>> /\ cPending = {}
    /\ cSvg = emptyClientSvg
    /\ cZoomLevel = 3 /\ allData = <<>> /\ filteredData = <<>>

Orderings(n) == {o \in [1..n -> 1..n] : {o[i] : i \in 1..n} = 1..n}

InitNormalize ==
    /\ pc = "start"
    /\ EwmaIdle
    /\ \E d \in 1..2, v \in [PartyKey -> 0..MaxShare] :
         dataPoint = [k \in PartyKey \cup {"date"} |->
                         IF k = "date" THEN d ELSE Rat(v[k])]
    /\ normalizedDataPoint = [date |-> 0]
    /\ ChartIdle

CallNormalizeVoteShare ==
    /\ pc = "start"
    /\ normalizedDataPoint' = normalizeVoteShare(dataPoint)
    /\ pc' = "normalizeVoteShare"
    /\ UNCHANGED <<ewmaVars, dataPoint, chartVars>>

NextNormalize == CallNormalizeVoteShare

SpecNormalize == InitNormalize /\ [][NextNormalize]_vars

\* The stable date-ascending arrangement of the caller's polls, stated
\* without the sort: among all orderings of the indices, the one in which
\* dates never decrease and polls of one date keep their input order.
StableAscending(d, o) ==
    \A i, j \in 1..Len(d) :
        i < j => \/ d[o[i]].date < d[o[j]].date
                 \/ (d[o[i]].date = d[o[j]].date /\ o[i] < o[j])
ChronologicalPolls(d) ==
    Permute(d, CHOOSE o \in Orderings(Len(d)) : StableAscending(d, o))


InitEWMA ==
    /\ pc = "start"
    /\ data \in SeqsUpTo(Polls, MaxPolls)
    /\ party = "liberal"
    /\ smoothingFactor = Omitted
    /\ result = <<>> /\ ascData = <<>> /\ ascResult = <<>>
    /\ NormIdle /\ ChartIdle

\* calculateEWMA(data, p, sf), and calculateEWMA on the date-ascending
\* arrangement of the same polls.
CallCalculateEWMA ==
    /\ pc = "start"
    /\ ascData' = ChronologicalPolls(data)
    /\ \E p \in PartyKey, sf \in SmoothingFactors :
         /\ party' = p
         /\ smoothingFactor' = sf
         /\ result' = calculateEWMA(data, p, sf)
         /\ data' = dataAfterCalculateEWMA(data)
         /\ ascResult' = calculateEWMA(ascData', p, sf)
    /\ pc' = "calculateEWMA"
    /\ UNCHANGED <<normVars, chartVars>>

NextEWMA == CallCalculateEWMA

SpecEWMA == InitEWMA /\ [][NextEWMA]_vars

alphaUsed == IF smoothingFactor = Omitted THEN <<1, 4>> ELSE smoothingFactor

\* C1: calculateEWMA returns one value per input poll, in date-ascending
\* order: the first value is the earliest poll's value for the party, and
\* each later value is the previous one plus alpha times the difference
\* between that poll's value and the previous one (alpha = 1/4 when no factor
\* is passed); an empty input returns an empty array.
C1_EwmaRecurrence ==
    pc = "calculateEWMA" =>
        LET chron == ascData
        IN  /\ Len(result) = Len(data)
            /\ (data = <<>> => result = <<>>)
            /\ (data # <<>> => result[1] = Rat(chron[1][party]))
            /\ \A i \in 2..Len(data) :
                   result[i] =
                       RAdd(result[i - 1],
                            RMul(alphaUsed,
                                 RSub(Rat(chron[i][party]), result[i - 1])))

\* the spec's scenario, handed over newest first with no factor passed:
\* liberal 40 then 30 gives 40, 37.5
C1_Witness ==
    /\ pc = "calculateEWMA"
    /\ Len(data) = 2 /\ data[1].date = 2 /\ data[2].date = 1
    /\ data[1].liberal = 30 /\ data[2].liberal = 40
    /\ party = "liberal" /\ smoothingFactor = Omitted
    /\ result = << <<40, 1>>, <<75, 2>> >>

Between(x, a, b) == (RLt(a, x) /\ RLt(x, b)) \/ (RLt(b, x) /\ RLt(x, a))

DistinctDates(d) ==
    \A i, j \in 1..Len(d) : i # j => d[i].date # d[j].date

\* C3: for polls with pairwise distinct dates, calculateEWMA returns for any
\* ordering what it returns for the date-ascending ordering, and the
\* caller's array is left as it was.
C3_OrderInsensitive ==
    /\ [](pc = "calculateEWMA" /\ DistinctDates(data) => result = ascResult)
    /\ [][data' = data]_vars

\* three polls handed over out of order
C3_Witness ==
    /\ pc = "calculateEWMA" /\ Len(data) = 3 /\ DistinctDates(data)
    /\ data[1].date > data[2].date /\ data # ascData
    /\ result = ascResult /\ result[3] # result[1]

\* the sum of the seven party values of a point, written out
SevenSum(dp) ==
    RAdd(dp.liberal, RAdd(dp.conservative, RAdd(dp.ndp, RAdd(dp.bloc,
        RAdd(dp.green, RAdd(dp.ppc, dp.other))))))
NonNegative(dp) == \A k \in PartyKey : RLe(Rat(0), dp[k])

\* C4: for a point whose seven party values are non-negative with a
\* non-zero total, the normalised point's seven values sum to 100, each is
\* value * 100 / total, and the date is unchanged.
C4_NormalizeTo100 ==
    (pc = "normalizeVoteShare" /\ NonNegative(dataPoint)
        /\ SevenSum(dataPoint) # Rat(0)) =>
        /\ SevenSum(normalizedDataPoint) = Rat(100)
        /\ \A k \in PartyKey :
               /\ normalizedDataPoint[k][2] > 0
               /\ RMul(normalizedDataPoint[k], SevenSum(dataPoint)) =
                      RMul(dataPoint[k], Rat(100))
        /\ normalizedDataPoint.date = dataPoint.date
        /\ DOMAIN normalizedDataPoint = DOMAIN dataPoint

\* a point with unequal values, 'other' among them, whose total is not 100
C4_Witness ==
    /\ pc = "normalizeVoteShare"
    /\ dataPoint.liberal = Rat(2) /\ dataPoint.conservative = Rat(1)
    /\ dataPoint.other = Rat(1) /\ SevenSum(dataPoint) = Rat(4)
    /\ normalizedDataPoint.liberal = Rat(50)
    /\ normalizedDataPoint.other = Rat(25)
    /\ dataPoint.date = 2

\* C5: when the total of the party values is zero, normalizeVoteShare
\* returns the point it was given, and no value is the result of a division
\* by zero.
C5_ZeroTotalNoOp ==
    (pc = "normalizeVoteShare" /\ SevenSum(dataPoint) = Rat(0)) =>
        /\ normalizedDataPoint = dataPoint
        /\ \A k \in PartyKey : normalizedDataPoint[k][2] # 0

C5_Witness ==
    /\ pc = "normalizeVoteShare"
    /\ \A k \in PartyKey : dataPoint[k] = Rat(0)
    /\ normalizedDataPoint = dataPoint

----------------------------------------------------------------------------
(* The client-side smoothing chart.  Its parent holds the poll list in a    *)
(* state it never sets again, so the polls prop is fixed at mount.  The     *)
(* chart's dates lie 10, 45, 100, ... days before the day it is viewed.     *)

TimeZones == {-5, 0, 2}
ChartToday == MakeDay(2025, 4, 31)
DayOffsets == <<10, 45, 100, 200, 400, 800>>
ChartDays == {ChartToday - DayOffsets[k] : k \in 1..MaxDay}
\* a row summing to 100 and a row of a poll that leaves 15 points to
\* undecided respondents
UndecidedShares ==
    [liberal |-> 45, conservative |-> 30, ndp |-> 5, bloc |-> 2,
     green |-> 2, ppc |-> 1, other |-> 0]
ChartShares ==
    { [liberal |-> 40, conservative |-> 30, ndp |-> 15, bloc |-> 5,
       green |-> 5, ppc |-> 3, other |-> 2],
      UndecidedShares }
ChartPolls == {Poll(d, s) : d \in ChartDays, s \in ChartShares}

(* the y scale and the drawing of the client-side chart *)

RMax(x, y) == IF RLt(x, y) THEN y ELSE x
\* Math.ceil
Ceil(x) == IF x[1] >= 0 THEN (x[1] + x[2] - 1) \div x[2]
           ELSE -((-x[1]) \div x[2])
plottedParties == <<"liberal", "conservative", "ndp", "bloc", "green", "ppc">>

\* Math.max(d.liberal ?? 0, ..., d.ppc ?? 0)
RECURSIVE maxOfParties(_, _, _)
maxOfParties(d, i, acc) ==
    IF i > Len(plottedParties) THEN acc
    ELSE maxOfParties(d, i + 1,
                      IF i = 1 THEN d[plottedParties[1]]
                      ELSE RMax(acc, d[plottedParties[i]]))

\* Math.max(0, ...rows.map(...))
RECURSIVE maxVoteShare(_, _, _)
maxVoteShare(rows, i, acc) ==
    IF i > Len(rows) THEN acc
    ELSE maxVoteShare(rows, i + 1, RMax(acc, maxOfParties(rows[i], 1, Rat(0))))

\* Math.max(...rawData.map(poll => Math.max(poll.liberal, ..., poll.ppc)))
\* of a non-empty rawData
clientMaxVoteShare(raw) ==
    LET rows == SubSeq([i \in 1..Len(raw) |->
                           AveragedDataPoint(raw[i].date, raw[i])],
                       1, Len(raw))
    IN  maxVoteShare(rows, 2, maxOfParties(rows[1], 1, Rat(0)))

\* Math.ceil((maxVoteShare + 5) / 5) * 5
clientYMax(raw) ==
    Ceil(RDiv(RAdd(clientMaxVoteShare(raw), Rat(5)), Rat(5))) * 5

\* rawData.filter(d => pollDate >= xScale.domain()[0] && pollDate <=
\* xScale.domain()[1])
clientMarkers(raw, series) ==
    LET ts == {NewDateOfString(series[i].date) : i \in 1..Len(series)}
        lo == CHOOSE x \in ts : \A y \in ts : x <= y
        hi == CHOOSE x \in ts : \A y \in ts : y <= x
        inDomain(d) ==
            NewDateOfString(d.date) >= lo /\ NewDateOfString(d.date) <= hi
    IN  SelectSeq(raw, inDomain)

\* what the render effect appends to the svg
clientDrawChart(series, raw) ==
    [series |-> series, markers |-> clientMarkers(raw, series),
     yMax |-> clientYMax(raw), majorityLine |-> (clientYMax(raw) >= 50)]


InitClient ==
    /\ pc = "client"
    /\ EwmaIdle /\ NormIdle /\ HoverIdle /\ PageIdle
    /\ utcOffset \in TimeZones
    /\ now = ChartToday * 24 + 12 - utcOffset
    /\ startDate = 0
    /\ zoomLevel = 3 /\ averagedData = <<>> /\ filteredAveragedData = <<>>
    /\ ApiUnmounted
    /\ polls \in SeqsUpTo(ChartPolls, MaxPolls)
    /\ cZoomLevel = 3 /\ cRawData = <<>> /\ allData = <<>>
    /\ filteredData = <<>>
    /\ cPending = {"process", "filter", "render"}
    /\ cSvg = emptyClientSvg

\* useEffect(..., [polls])
ClientProcessPollsEffect ==
    /\ pc = "client"
    /\ "process" \in cPending
    /\ IF Len(polls) = 0
       THEN /\ cPending' = cPending \ {"process"}
            /\ UNCHANGED <<cRawData, allData>>
       ELSE /\ cRawData' = polls
            /\ allData' = ewmaData(polls, utcOffset)
            /\ cPending' = (cPending \ {"process"}) \cup {"filter", "render"}
    /\ UNCHANGED <<pc, ewmaVars, normVars, envVars, hoverVars, pageVars, startDate,
                   apiVars, polls,
                   cZoomLevel, filteredData, cSvg>>

\* useEffect(..., [allData, zoomLevel]); effects run in source order
ClientFilterEffect ==
    /\ pc = "client"
    /\ "filter" \in cPending /\ "process" \notin cPending
    /\ startDate' = clientStartDate(cZoomLevel, now, utcOffset)
    /\ filteredData' =
           clientZoomFilter(allData, cZoomLevel, now, utcOffset, filteredData)
    /\ cPending' = IF Len(allData) = 0 THEN cPending \ {"filter"}
                   ELSE (cPending \ {"filter"}) \cup {"render"}
    /\ UNCHANGED <<pc, ewmaVars, normVars, envVars, hoverVars, pageVars, apiVars,
                   polls, cZoomLevel,
                   cRawData, allData, cSvg>>

\* useEffect(..., [filteredData, dimensions, region, rawData, zoomLevel,
\* showBloc]); the dimensions effect has measured the wrapper at mount
ClientRenderEffect ==
    /\ pc = "client"
    /\ "render" \in cPending
    /\ "process" \notin cPending /\ "filter" \notin cPending
    /\ cSvg' = IF Len(filteredData) = 0 THEN cSvg
               ELSE clientDrawChart(filteredData, cRawData)
    /\ cPending' = cPending \ {"render"}
    /\ UNCHANGED <<pc, ewmaVars, normVars, envVars, hoverVars, pageVars, startDate,
                   apiVars, polls,
                   cZoomLevel, cRawData, allData, filteredData>>

NextClient ==
    ClientProcessPollsEffect \/ ClientFilterEffect \/ ClientRenderEffect

SpecClient == InitClient /\ [][NextClient]_vars

DatesOf(series) == {series[i].date : i \in 1..Len(series)}
StrictlyAscendingByDate(series) ==
    \A i \in 1..Len(series) - 1 : series[i].date < series[i + 1].date

\* C6: once the process effect has run on a non-empty poll list, allData is
\* strictly ascending by date and holds each poll date exactly once.
C6_AllDataUniqueAscending ==
    (pc = "client" /\ "process" \notin cPending /\ polls # <<>>) =>
        /\ StrictlyAscendingByDate(allData)
        /\ DatesOf(allData) = DatesOf(polls)
        /\ Len(allData) = Cardinality(DatesOf(polls))

\* three polls, two of them on one date, handed over newest first
C6_Witness ==
    /\ pc = "client" /\ "process" \notin cPending
    /\ Len(polls) = 3 /\ Len(allData) = 2
    /\ polls[1].date > polls[2].date /\ polls[2].date = polls[3].date

----------------------------------------------------------------------------
(* Harness for the zoom window filter: each chart holds a point dated on    *)
(* the cutoff's calendar day and a point dated the day before, for every    *)
(* day of a leap year and of the year after it.                            *)

NowDays == MakeDay(2024, 0, 1)..MakeDay(2025, 11, 31)
BoundaryShares ==
    [liberal |-> 40, conservative |-> 30, ndp |-> 15, bloc |-> 5,
     green |-> 5, ppc |-> 3, other |-> 2]
BoundarySeries(cutoff, utcOff) ==
    << AveragedDataPoint(LocalDay(cutoff, utcOff) - 1, BoundaryShares),
       AveragedDataPoint(LocalDay(cutoff, utcOff), BoundaryShares) >>

InitZoom ==
    /\ pc = "start"
    /\ EwmaIdle /\ NormIdle /\ HoverIdle /\ PageIdle
    /\ utcOffset \in TimeZones
    /\ \E day \in NowDays : now = day * 24 + 12 - utcOffset
    /\ \E z \in 0..4 :
         /\ zoomLevel = z
         /\ cZoomLevel = IF z = 0 THEN 3 ELSE z
    /\ startDate = 0
    /\ averagedData =
           BoundarySeries(apiStartDate(zoomLevel, now, utcOffset), utcOffset)
    /\ allData =
           BoundarySeries(clientStartDate(cZoomLevel, now, utcOffset), utcOffset)
    /\ filteredAveragedData = <<>>
    /\ ApiUnmounted
    /\ filteredData = <<>>
    /\ polls = <<>> /\ cRawData = <<>> /\ cPending = {}
    /\ cSvg = emptyClientSvg

ApiZoomFilterEffect ==
    /\ pc = "start"
    /\ startDate' = apiStartDate(zoomLevel, now, utcOffset)
    /\ filteredAveragedData' =
           apiZoomFilter(averagedData, zoomLevel, now, utcOffset)
    /\ pc' = "apiZoomFilter"
    /\ UNCHANGED <<ewmaVars, normVars, envVars, hoverVars, pageVars, zoomLevel,
                   averagedData,
                   apiCompVars, clientVars>>

ClientZoomFilterEffect ==
    /\ pc = "start"
    /\ startDate' = clientStartDate(cZoomLevel, now, utcOffset)
    /\ filteredData' =
           clientZoomFilter(allData, cZoomLevel, now, utcOffset, filteredData)
    /\ pc' = "clientZoomFilter"
    /\ UNCHANGED <<ewmaVars, normVars, envVars, hoverVars, pageVars, apiVars, polls,
                   cZoomLevel,
                   cRawData, allData, cPending, cSvg>>

NextZoom == ApiZoomFilterEffect \/ ClientZoomFilterEffect

SpecZoom == InitZoom /\ [][NextZoom]_vars

CutoffDay == LocalDay(startDate, utcOffset)

\* C8: for every zoom level with a calendar cutoff (one year to one month)
\* and every now, the point dated on the cutoff date is kept and the point
\* dated one day before it is dropped, in the API-backed chart and in the
\* client-side chart.
C8_ZoomBoundary ==
    /\ (pc = "apiZoomFilter" /\ zoomLevel \in 1..4) =>
           /\ CutoffDay \in DatesOf(filteredAveragedData)
           /\ (CutoffDay - 1) \notin DatesOf(filteredAveragedData)
    /\ (pc = "clientZoomFilter" /\ cZoomLevel \in 1..4) =>
           /\ CutoffDay \in DatesOf(filteredData)
           /\ (CutoffDay - 1) \notin DatesOf(filteredData)

MonthsBack(zoom) == CASE zoom = 1 -> 12 [] zoom = 2 -> 6 [] zoom = 3 -> 3
                      [] zoom = 4 -> 1
MonthCount(day) == YearFromDay(day) * 12 + MonthFromDay(day)
ZoomOfLastFilter == IF pc = "apiZoomFilter" THEN zoomLevel ELSE cZoomLevel

\* C9: for every now, the cutoff of the one-year, six-month, three-month
\* and one-month levels lies in the calendar month 12, 6, 3 and 1 months
\* before now's month.
C9_CutoffMonth ==
    (pc \in {"apiZoomFilter", "clientZoomFilter"}
        /\ ZoomOfLastFilter \in 1..4) =>
        MonthCount(CutoffDay) =
            MonthCount(LocalDay(now, utcOffset)) - MonthsBack(ZoomOfLastFilter)

----------------------------------------------------------------------------
(* API-backed chart: the component as a state machine.  A step is a commit  *)
(* of React (the component function runs on the current state, the DOM is   *)
(* updated, then the effects whose dependencies changed run in source      *)
(* order on the state of that render), the resolution of a fetchData call, *)
(* a timer, or a user event.  State updates made after an await are        *)
(* batched into the next commit.  React schedules the commit when the      *)
(* update is queued, so it runs before the next network, timer, click or   *)
(* pointer task; wheel events are the exception, a burst of them is        *)
(* handled before the re-render they ask for.                              *)

MaxInFlight == 2
MaxBurst == 2

Regions == {"federal", "ontario"}
\* the averaged point dated k days before the day the chart is viewed
LowShares ==
    [liberal |-> 22, conservative |-> 21, ndp |-> 20, bloc |-> 12,
     green |-> 12, ppc |-> 8, other |-> 5]
LowRawShares ==
    [liberal |-> 21, conservative |-> 23, ndp |-> 19, bloc |-> 12,
     green |-> 12, ppc |-> 8, other |-> 5]
HighRawShares ==
    [liberal |-> 47, conservative |-> 30, ndp |-> 10, bloc |-> 5,
     green |-> 4, ppc |-> 2, other |-> 2]
\* the rows of /api/averages/{region} are the region's own: the averages
\* of ontario have no bloc share
RegionShares(r, s) ==
    IF r = "federal" THEN s
    ELSE [s EXCEPT !.bloc = 0, !.other = s.other + s.bloc]
ApiPoint(r, k) ==
    AveragedDataPoint(ChartToday - k,
                      RegionShares(r, IF k = 10 THEN LowShares
                                      ELSE BoundaryShares))
\* a raw poll of /api/polls: the date and the party values
RawPoll(d, s) == AveragedDataPoint(d, s)
\* bodies of /api/averages/{region}: arrays in any order
AvgPayloads(r) ==
    IF r = "federal"
    THEN { <<>>, <<ApiPoint(r, 45)>>, <<ApiPoint(r, 45), ApiPoint(r, 10)>>,
           <<ApiPoint(r, 10), ApiPoint(r, 45)>> }
    ELSE { <<ApiPoint(r, 45), ApiPoint(r, 10)>> }
\* bodies of /api/polls/{region}
RawPayloads ==
    {<< RawPoll(ChartToday - 30, HighRawShares),
        RawPoll(ChartToday - 10, LowRawShares) >>}
dimensionsWidth == 800

\* what the two awaited responses can be: a rejected fetch, or two
\* responses of which each has a status that is ok or not and a body that
\* is an array or not; at most one of the four is wrong at a time, and the
\* other endpoint then answers with rows
GoodAvg(reg) == <<ApiPoint(reg, 45), ApiPoint(reg, 10)>>
GoodRaw == << RawPoll(ChartToday - 30, HighRawShares),
              RawPoll(ChartToday - 10, LowRawShares) >>
Response(rej, aOk, rOk, aArr, rArr, a, p) ==
    [rejected |-> rej, avgOk |-> aOk, rawOk |-> rOk,
     avgIsArray |-> aArr, rawIsArray |-> rArr, avgData |-> a,
     rawDataJson |-> p]
FailedResponses(reg) ==
    {Response(TRUE, TRUE, TRUE, TRUE, TRUE, <<>>, <<>>),
     Response(FALSE, FALSE, TRUE, TRUE, TRUE, <<>>, GoodRaw),
     Response(FALSE, TRUE, FALSE, TRUE, TRUE, GoodAvg(reg), <<>>),
     Response(FALSE, TRUE, TRUE, FALSE, TRUE, <<>>, GoodRaw),
     Response(FALSE, TRUE, TRUE, TRUE, FALSE, GoodAvg(reg), <<>>)}
Responses(reg) ==
    FailedResponses(reg)
    \cup
    {Response(FALSE, TRUE, TRUE, TRUE, TRUE, a, p) :
        a \in AvgPayloads(reg), p \in RawPayloads}

\* the message the catch block stores, or nullError when nothing is thrown
fetchDataError(resp) ==
    IF resp.rejected THEN "Failed to fetch"
    ELSE IF ~resp.avgOk THEN "Failed to fetch averaged data"
    ELSE IF ~resp.rawOk THEN "Failed to fetch raw poll data"
    ELSE IF ~resp.avgIsArray THEN "Invalid averaged data format"
    ELSE IF ~resp.rawIsArray THEN "Invalid raw data format"
    ELSE nullError

\* a component function without the error message
returnedViewIgnoringError(isLoading, err) ==
    IF isLoading THEN "loading" ELSE "chart"

\* what the component function returns for a state
returnedView(isLoading, err) ==
    IF isLoading THEN "loading"
    ELSE IF err # nullError THEN "error"
    ELSE "chart"

RemoveAt(s, i) == SubSeq(s, 1, i - 1) \o SubSeq(s, i + 1, Len(s))

\* d3.bisector(d => safeParseDateISO(d.date)).left(a, x, lo, hi), with the
\* indices of the source (the first element is a[0])
RECURSIVE bisectLeft(_, _, _, _, _)
bisectLeft(a, x, lo, hi, utcOff) ==
    IF lo < hi
    THEN LET mid == (lo + hi) \div 2
         IN  IF safeParseDateISO(a[mid + 1].date, utcOff) < x
             THEN bisectLeft(a, x, mid + 1, hi, utcOff)
             ELSE bisectLeft(a, x, lo, mid, utcOff)
    ELSE lo

\* a handler that keeps the earlier bracketing point whatever the distances
nearestPointAlwaysEarlier(series, pointerDate, utcOff) ==
    LET i == bisectLeft(series, pointerDate, 1, Len(series), utcOff)
    IN  IF i - 1 >= Len(series) \/ i >= Len(series) THEN null
        ELSE series[i].date

\* the date string of the point the mousemove handler selects, or null when
\* the handler returns early
nearestPoint(series, pointerDate, utcOff) ==
    LET i == bisectLeft(series, pointerDate, 1, Len(series), utcOff)
    IN  IF i - 1 >= Len(series) \/ i >= Len(series) THEN null
        ELSE LET d0 == series[i]
                 d1 == series[i + 1]
                 date0 == safeParseDateISO(d0.date, utcOff)
                 date1 == safeParseDateISO(d1.date, utcOff)
             IN  IF date0 = null \/ date1 = null THEN null
                 ELSE IF pointerDate - date0 > date1 - pointerDate
                      THEN d1.date ELSE d0.date

\* nearestDate.toISOString().split('T')[0]
toISODateString(t) == t \div 24

SeriesInstants(series, utcOff) ==
    {safeParseDateISO(series[i].date, utcOff) : i \in 1..Len(series)}
MinOf(S) == CHOOSE x \in S : \A y \in S : x <= y
MaxOf(S) == CHOOSE x \in S : \A y \in S : y <= x

\* xScale.invert(pointer) for a pointer over the overlay: an instant of the
\* x domain, the extent of the drawn series
PointerDates(series, utcOff) ==
    LET ts == SeriesInstants(series, utcOff)
        lo == MinOf(ts)
        hi == MaxOf(ts)
    IN  {t \in {u + k : u \in ts, k \in {-12, 0, 12}} \cup {(lo + hi) \div 2} :
           lo <= t /\ t <= hi}

(* the y scale of the API-backed chart *)

\* rawData.filter(d => date && date >= xDomain[0] && date <= xDomain[1])
relevantRawData(raw, series, utcOff) ==
    LET ts == SeriesInstants(series, utcOff)
        inDomain(d) ==
            LET date == safeParseDateISO(d.date, utcOff)
            IN  date # null /\ date >= MinOf(ts) /\ date <= MaxOf(ts)
    IN  SelectSeq(raw, inDomain)

\* a ceiling without the minimum of 30
finalYMaxWithoutFloor(relevant, series) ==
    LET overallMax == RMax(maxVoteShare(relevant, 1, Rat(0)),
                           maxVoteShare(series, 1, Rat(0)))
    IN  Ceil(RDiv(RMul(overallMax, Norm(105, 100)), Rat(5))) * 5

\* Math.max(30, Math.ceil((overallMax * 1.05) / 5) * 5)
finalYMax(relevant, series) ==
    LET overallMax == RMax(maxVoteShare(relevant, 1, Rat(0)),
                           maxVoteShare(series, 1, Rat(0)))
        yMax == Ceil(RDiv(RMul(overallMax, Norm(105, 100)), Rat(5))) * 5
    IN  IF yMax > 30 THEN yMax ELSE 30

\* a majority line drawn only above 50
drawChartAboveMajority(series, raw, utcOff) ==
    LET relevant == relevantRawData(raw, series, utcOff)
        ceiling == finalYMax(relevant, series)
    IN  [relevantRawData |-> relevant, finalYMax |-> ceiling,
         majorityLine |-> (ceiling > 50)]

\* filteredAveragedData.filter(d => safeParseDateISO(d.date) !== null)
validFilteredData(series, utcOff) ==
    LET valid(d) == safeParseDateISO(d.date, utcOff) # null
    IN  SelectSeq(series, valid)

\* what the render effect appends to the svg: nothing when no point has a
\* valid date; the x domain is the extent of the valid points, the ceiling
\* is taken over the relevant raw polls and the whole filtered series
drawChart(series, raw, utcOff) ==
    LET validData == validFilteredData(series, utcOff)
    IN  IF Len(validData) = 0 THEN emptySvg
        ELSE LET relevant == relevantRawData(raw, validData, utcOff)
                 ceiling == finalYMax(relevant, series)
             IN  [relevantRawData |-> relevant, finalYMax |-> ceiling,
                  majorityLine |-> (ceiling >= 50)]

\* the API-backed chart is viewed west and east of UTC
ApiTimeZones == {-5, 2}

InitApi ==
    /\ pc = "api"
    /\ EwmaIdle /\ NormIdle /\ HoverIdle /\ PageIdle
    /\ utcOffset \in ApiTimeZones
    /\ now = ChartToday * 24 + 12 - utcOffset
    /\ startDate = 0
    /\ region \in Regions /\ renderedRegion = "none"
    /\ zoomLevel = 3 /\ averagedData = <<>> /\ rawData = <<>>
    /\ filteredAveragedData = <<>>
    /\ loading = TRUE /\ error = nullError
    /\ dimensions = 0 /\ tooltipData = null
    /\ inFlight = <<>> /\ view = "none" /\ timer = "none"
    /\ pending = {"render", "filterEffect", "renderEffect"}
    /\ drawnSeries = <<>> /\ wheelZoomLevel = null /\ svg = emptySvg
    /\ polls = <<>> /\ cRawData = <<>> /\ cPending = {}
    /\ cSvg = emptyClientSvg
    /\ cZoomLevel = 3 /\ allData = <<>> /\ filteredData = <<>>

apiFrame ==
    <<pc, ewmaVars, normVars, envVars, hoverVars, pageVars, clientVars>>

\* no state update or prop change waits for a commit
Committed == pending = {} /\ region = renderedRegion

\* one commit: the component function, the DOM update and the effects
ApiCommit ==
    /\ pc = "api"
    /\ pending # {} \/ region # renderedRegion
    /\ LET nextView == returnedView(loading, error)
           runFetch == region # renderedRegion
           runFilter == "filterEffect" \in pending
           runRender == "renderEffect" \in pending
           sameDom == view = "chart" /\ nextView = "chart"
           canDraw == /\ nextView = "chart"
                      /\ Len(filteredAveragedData) # 0
                      /\ dimensions # 0
       IN  /\ view' = nextView
           /\ renderedRegion' = region
           /\ timer' = IF timer = "none" THEN "pending" ELSE timer
           \* fetch effect, [region, onTrendsUpdate]
           /\ loading' = IF runFetch THEN TRUE ELSE loading
           /\ error' = IF runFetch THEN nullError ELSE error
           /\ averagedData' = IF runFetch THEN <<>> ELSE averagedData
           /\ rawData' = IF runFetch THEN <<>> ELSE rawData
           /\ inFlight' = IF runFetch THEN Append(inFlight, region)
                          ELSE inFlight
           \* zoom filter effect, [averagedData, zoomLevel]
           /\ filteredAveragedData' =
                  IF runFilter
                  THEN apiZoomFilter(averagedData, zoomLevel, now, utcOffset)
                  ELSE filteredAveragedData
           /\ startDate' =
                  IF runFilter /\ Len(averagedData) # 0
                  THEN apiStartDate(zoomLevel, now, utcOffset)
                  ELSE startDate
           \* render effect, [filteredAveragedData, rawData, dimensions,
           \* showBloc, zoomLevel], after the cleanup of its previous run
           /\ drawnSeries' =
                  IF runRender
                  THEN IF canDraw THEN filteredAveragedData ELSE <<>>
                  ELSE IF sameDom THEN drawnSeries ELSE <<>>
           /\ wheelZoomLevel' =
                  IF runRender
                  THEN IF canDraw THEN zoomLevel ELSE null
                  ELSE IF sameDom THEN wheelZoomLevel ELSE null
           /\ svg' =
                  IF runRender
                  THEN IF canDraw
                       THEN drawChart(filteredAveragedData, rawData, utcOffset)
                       ELSE emptySvg
                  ELSE IF sameDom THEN svg ELSE emptySvg
           /\ pending' =
                  (IF runFetch THEN {"render", "filterEffect", "renderEffect"}
                   ELSE {})
                  \cup (IF runFilter THEN {"render", "renderEffect"} ELSE {})
    /\ UNCHANGED <<apiFrame, region, zoomLevel, dimensions, tooltipData>>

\* a region prop change by the parent
ApiRegionChange ==
    /\ pc = "api"
    /\ Committed
    /\ Len(inFlight) < MaxInFlight
    /\ \E r \in Regions \ {region} : region' = r
    /\ UNCHANGED <<apiFrame, startDate, zoomLevel, averagedData,
                   filteredAveragedData, renderedRegion, loading, error,
                   rawData, dimensions, tooltipData, inFlight, pending, view,
                   timer, drawnSeries, wheelZoomLevel, svg>>

\* a fetchData that stores the averaged rows without looking at the raw
\* response
fetchDataResumeUnchecked(i, resp) ==
    /\ inFlight' = RemoveAt(inFlight, i)
    /\ IF ~resp.rejected /\ resp.avgOk /\ resp.avgIsArray
       THEN /\ averagedData' = resp.avgData
            /\ rawData' = resp.rawDataJson
            /\ error' = error
            /\ pending' = pending \cup
                   {"render", "filterEffect", "renderEffect"}
       ELSE /\ error' = fetchDataError(resp)
            /\ pending' = pending \cup {"render"}
            /\ UNCHANGED <<averagedData, rawData>>
    /\ loading' = FALSE

\* the rest of call i of fetchData, from the await on, for the responses
\* resp; nothing tells a call for an earlier region from the latest one
fetchDataResume(i, resp) ==
    LET err == fetchDataError(resp)
    IN  /\ inFlight' = RemoveAt(inFlight, i)
        /\ IF err = nullError
           THEN /\ averagedData' = resp.avgData
                /\ rawData' = resp.rawDataJson
                /\ error' = error
                /\ pending' = pending \cup
                       {"render", "filterEffect", "renderEffect"}
           ELSE /\ error' = err
                /\ pending' = pending \cup {"render"}
                /\ UNCHANGED <<averagedData, rawData>>
        /\ loading' = FALSE

ApiFetchResolve ==
    /\ pc = "api"
    /\ Committed
    /\ \E i \in 1..Len(inFlight) : \E resp \in Responses(inFlight[i]) :
         fetchDataResume(i, resp)
    /\ UNCHANGED <<apiFrame, startDate, zoomLevel, filteredAveragedData,
                   region, renderedRegion, dimensions, tooltipData, view,
                   timer, drawnSeries, wheelZoomLevel, svg>>

\* the 100 ms timer of the dimensions effect; the ResizeObserver observes
\* nothing, the first render having returned the loading message
ApiDimensionsTimer ==
    /\ pc = "api"
    /\ Committed
    /\ timer = "pending"
    /\ timer' = "fired"
    /\ IF view = "chart"
       THEN /\ dimensions' = dimensionsWidth
            /\ pending' = pending \cup {"render", "renderEffect"}
       ELSE UNCHANGED <<dimensions, pending>>
    /\ UNCHANGED <<apiFrame, startDate, zoomLevel, averagedData,
                   filteredAveragedData, region, renderedRegion, loading,
                   error, rawData, tooltipData, inFlight, view, drawnSeries,
                   wheelZoomLevel, svg>>

\* the wheel.zoom handler: the bounds are tested on the zoomLevel of the
\* render that registered the handler, the update is applied to the latest
wheelZoom(captured, prev, deltaY) ==
    IF deltaY < 0 /\ captured < 4 THEN prev + 1
    ELSE IF deltaY > 0 /\ captured > 0 THEN prev - 1
    ELSE prev

ApiWheel ==
    /\ pc = "api"
    /\ wheelZoomLevel # null
    /\ \E deltaY \in {-100, 100} :
         zoomLevel' = wheelZoom(wheelZoomLevel, zoomLevel, deltaY)
    /\ Abs(zoomLevel' - wheelZoomLevel) <= MaxBurst
    /\ pending' = IF zoomLevel' # zoomLevel
                  THEN pending \cup {"render", "filterEffect", "renderEffect"}
                  ELSE pending
    /\ UNCHANGED <<apiFrame, startDate, averagedData, filteredAveragedData,
                   region, renderedRegion, loading, error, rawData,
                   dimensions, tooltipData, inFlight, view, timer,
                   drawnSeries, wheelZoomLevel, svg>>

\* zoom buttons that ask for the data again
ApiZoomButtonRefetching ==
    /\ pc = "api"
    /\ Committed
    /\ view = "chart"
    /\ \E z \in {4, 1, 0} : zoomLevel' = z
    /\ loading' = TRUE
    /\ averagedData' = <<>>
    /\ rawData' = <<>>
    /\ pending' = pending \cup {"render", "filterEffect", "renderEffect"}
    /\ UNCHANGED <<apiFrame, startDate, filteredAveragedData,
                   region, renderedRegion, error,
                   dimensions, tooltipData, inFlight, view, timer,
                   drawnSeries, wheelZoomLevel, svg>>

\* the 1 Month, 1 Year and All Data buttons
ApiZoomButton ==
    /\ pc = "api"
    /\ Committed
    /\ view = "chart"
    /\ \E z \in {4, 1, 0} : zoomLevel' = z
    /\ pending' = IF zoomLevel' # zoomLevel
                  THEN pending \cup {"render", "filterEffect", "renderEffect"}
                  ELSE pending
    /\ UNCHANGED <<apiFrame, startDate, averagedData, filteredAveragedData,
                   region, renderedRegion, loading, error, rawData,
                   dimensions, tooltipData, inFlight, view, timer,
                   drawnSeries, wheelZoomLevel, svg>>

ApiMouseMove ==
    /\ pc = "api"
    /\ Committed
    /\ drawnSeries # <<>>
    /\ \E pointerDate \in PointerDates(drawnSeries, utcOffset) :
         LET d == nearestPoint(drawnSeries, pointerDate, utcOffset)
         IN  IF d = null
             THEN UNCHANGED <<tooltipData, pending>>
             ELSE /\ tooltipData' =
                         toISODateString(safeParseDateISO(d, utcOffset))
                  /\ pending' = pending \cup {"render"}
    /\ UNCHANGED <<apiFrame, startDate, zoomLevel, averagedData,
                   filteredAveragedData, region, renderedRegion, loading,
                   error, rawData, dimensions, inFlight, view, timer,
                   drawnSeries, wheelZoomLevel, svg>>

ApiMouseOut ==
    /\ pc = "api"
    /\ Committed
    /\ drawnSeries # <<>>
    /\ tooltipData' = null
    /\ pending' = IF tooltipData # null THEN pending \cup {"render"}
                  ELSE pending
    /\ UNCHANGED <<apiFrame, startDate, zoomLevel, averagedData,
                   filteredAveragedData, region, renderedRegion, loading,
                   error, rawData, dimensions, inFlight, view, timer,
                   drawnSeries, wheelZoomLevel, svg>>

NextApi ==
    \/ ApiCommit
    \/ ApiRegionChange
    \/ ApiFetchResolve
    \/ ApiDimensionsTimer
    \/ ApiWheel
    \/ ApiZoomButton
    \/ ApiMouseMove
    \/ ApiMouseOut

SpecApi == InitApi /\ [][NextApi]_vars

AscendingByDate(series) ==
    \A i \in 1..(Len(series) - 1) :
        safeParseDateISO(series[i].date, utcOffset)
            <= safeParseDateISO(series[i + 1].date, utcOffset)

\* C7: in every reachable state of the API-backed chart the filtered
\* averaged series, and with it the series the drawn chart's mousemove
\* handler bisects, is ascending by date, whatever the order of the
\* /api/averages response array.
C7_BisectSeriesAscending ==
    pc = "api" =>
        /\ AscendingByDate(filteredAveragedData)
        /\ AscendingByDate(drawnSeries)

RECURSIVE IsSubsequence(_, _)
IsSubsequence(sub, full) ==
    IF sub = <<>> THEN TRUE
    ELSE IF full = <<>> THEN FALSE
    ELSE IF Head(sub) = Head(full)
         THEN IsSubsequence(Tail(sub), Tail(full))
         ELSE IsSubsequence(sub, Tail(full))

\* C10 as stated: in every reachable state of the API-backed chart the
\* filtered series is a subsequence of the averaged series in the same
\* order.
C10_FilteredAlwaysSubsequence ==
    pc = "api" => IsSubsequence(filteredAveragedData, averagedData)

\* C10: a step that changes the zoom level (wheel or zoom button) changes
\* neither the averaged series nor the raw series, nor anything else of the
\* component's state but zoomLevel; the filtered series changes only in a
\* commit, to a subsequence, in the same order, of the averaged series that
\* commit rendered; and whenever no update awaits a commit the filtered
\* series is the zoom window of the averaged series, a subsequence of it in
\* the same order.
C10_ZoomFrame ==
    /\ [][zoomLevel' # zoomLevel =>
             UNCHANGED <<averagedData, rawData, filteredAveragedData, region,
                         loading, error, dimensions, tooltipData, inFlight>>
         ]_vars
    /\ [][filteredAveragedData' # filteredAveragedData =>
             /\ zoomLevel' = zoomLevel
             /\ IsSubsequence(filteredAveragedData', averagedData)]_vars
    /\ [](pc = "api" /\ Committed =>
             /\ IsSubsequence(filteredAveragedData, averagedData)
             /\ filteredAveragedData =
                    apiZoomFilter(averagedData, zoomLevel, now, utcOffset))

\* the one-month button or the wheel has narrowed the window, the filter
\* effect has dropped the point outside it and the chart is redrawn
C10_Witness ==
    /\ pc = "api" /\ Committed
    /\ zoomLevel = 4
    /\ Len(averagedData) = 2
    /\ Len(filteredAveragedData) = 1
    /\ view = "chart"
    /\ drawnSeries = filteredAveragedData
    /\ wheelZoomLevel = 4

----------------------------------------------------------------------------
(* The drawn chart *)

\* a commit of the API-backed chart whose render effect drew the chart
ApiRenderEffectDrew ==
    /\ pc = "api"
    /\ "renderEffect" \in pending
    /\ zoomLevel' = zoomLevel
    /\ svg'.finalYMax # null

PlottedValues(rows) ==
    {rows[i][plottedParties[k]] :
        i \in 1..Len(rows), k \in 1..Len(plottedParties)}
RawPollsInDomain(raw, series) ==
    {i \in 1..Len(raw) :
        \E a, b \in 1..Len(series) :
            /\ safeParseDateISO(series[a].date, utcOffset)
                   <= safeParseDateISO(raw[i].date, utcOffset)
            /\ safeParseDateISO(raw[i].date, utcOffset)
                   <= safeParseDateISO(series[b].date, utcOffset)}
\* the largest value of the six plotted parties over the raw polls inside
\* the x-domain and the filtered averaged points, 0 included; the values
\* are fractions with positive denominators, compared by cross-multiplying
LargestPlotted(raw, series) ==
    LET S == {Rat(0)} \cup PlottedValues(series)
             \cup {raw[i][plottedParties[k]] :
                      i \in RawPollsInDomain(raw, series),
                      k \in 1..Len(plottedParties)}
    IN  CHOOSE m \in S : \A v \in S : v[1] * m[2] <= m[1] * v[2]
\* c = max(30, 5 * ceil(1.05 * m / 5)): c is a multiple of 5 and at least
\* 30, 1.05 * m <= c, and c - 5 < 1.05 * m when c is above 30
IsCeilingOf(c, m) ==
    /\ c % 5 = 0 /\ c >= 30
    /\ 105 * m[1] <= 100 * c * m[2]
    /\ c > 30 => 100 * (c - 5) * m[2] < 105 * m[1]

\* C11: whenever the API-backed chart is drawn, its vertical ceiling is
\* max(30, 5 * ceil(1.05 * M / 5)), M being the largest value of the six
\* plotted parties over the raw polls dated inside the x-domain and over the
\* filtered averaged points; the ceiling is a multiple of 5 and at least 30.
C11_CeilingFormula ==
    [][ApiRenderEffectDrew =>
          IsCeilingOf(svg'.finalYMax,
                      LargestPlotted(rawData, filteredAveragedData))]_vars

\* a chart whose ceiling of 50 comes from a raw poll inside the x-domain
C11_Witness ==
    /\ pc = "api"
    /\ svg.finalYMax = 50
    /\ Len(svg.relevantRawData) = 2
    /\ Len(drawnSeries) = 2

\* both charts, each mounted on its own
InitCharts == InitApi \/ InitClient
NextCharts == NextApi \/ NextClient
SpecCharts == InitCharts /\ [][NextCharts]_vars

\* every value of the six parties in the rows is strictly below the ceiling
BelowCeiling(rows, ceiling) ==
    \A v \in PlottedValues(rows) : RLt(v, Rat(ceiling))

ApiChartBelowCeiling ==
    svg.finalYMax # null =>
        /\ BelowCeiling(svg.relevantRawData, svg.finalYMax)
        /\ BelowCeiling(drawnSeries, svg.finalYMax)

ClientChartBelowCeiling ==
    cSvg.yMax # null =>
        /\ \A i \in 1..Len(cSvg.markers), k \in 1..Len(plottedParties) :
               cSvg.markers[i][plottedParties[k]] < cSvg.yMax
        /\ BelowCeiling(cSvg.series, cSvg.yMax)

\* C12: in every drawn chart, of the API-backed chart and of the client-side
\* smoothing chart, every plotted raw-poll marker and every plotted
\* trend-line value is strictly below the ceiling of the y scale.
C12_PlottedBelowCeiling ==
    ApiChartBelowCeiling /\ ClientChartBelowCeiling

\* C13: in both charts the 50% majority reference line and its label are
\* in the svg if and only if a chart is drawn whose ceiling is at least 50.
C13_MajorityLine ==
    /\ svg.majorityLine <=> (svg.finalYMax # null /\ svg.finalYMax >= 50)
    /\ cSvg.majorityLine <=> (cSvg.yMax # null /\ cSvg.yMax >= 50)

\* the API-backed chart drawn with a ceiling of exactly 50
C13_Witness ==
    /\ pc = "api"
    /\ svg.finalYMax = 50
    /\ svg.majorityLine
    /\ wheelZoomLevel # null

----------------------------------------------------------------------------
(* The mousemove handlers of both charts as functions of the series they   *)
(* closed over and of the pointer date: a series of one to three points,   *)
(* ascending by date, on days 1, 5 and 10 after a base day, and a pointer  *)
(* date on any hour from a day before the first point to a day after the  *)
(* last.                                                                   *)

\* d3.bisector(d => new Date(d.date)).left(a, x, lo, hi) of the client-side
\* chart
RECURSIVE clientBisectLeft(_, _, _, _)
clientBisectLeft(a, x, lo, hi) ==
    IF lo < hi
    THEN LET mid == (lo + hi) \div 2
         IN  IF NewDateOfString(a[mid + 1].date) < x
             THEN clientBisectLeft(a, x, mid + 1, hi)
             ELSE clientBisectLeft(a, x, lo, mid)
    ELSE lo

\* the date string of the point the client-side chart's mousemove handler
\* selects, or null when the handler returns early
clientNearestPoint(series, xDate) ==
    LET i == clientBisectLeft(series, xDate, 1, Len(series))
    IN  IF i - 1 >= Len(series) \/ i >= Len(series) THEN null
        ELSE LET d0 == series[i]
                 d1 == series[i + 1]
             IN  IF xDate - NewDateOfString(d0.date)
                        > NewDateOfString(d1.date) - xDate
                 THEN d1.date ELSE d0.date

\* what a handler that ends in an uncaught TypeError leaves as its selection
TypeError == -1999999999

\* the chart that averages the polls of each date: its mousemove handler
\* reads d0.date and d1.date without testing d0 and d1, and reading a
\* property of undefined throws; the dates of its series are the strings of
\* local midnights
groupedNearestPoint(series, xDate, utcOff) ==
    LET i == bisectLeft(series, xDate, 1, Len(series), utcOff)
    IN  IF i - 1 >= Len(series) \/ i >= Len(series) THEN TypeError
        ELSE LET d0 == series[i]
                 d1 == series[i + 1]
             IN  IF xDate - d3TimeParse(d0.date, utcOff)
                        > d3TimeParse(d1.date, utcOff) - xDate
                 THEN d1.date ELSE d0.date

HoverBase == ChartToday - 20
HoverPoint(k) == AveragedDataPoint(HoverBase + k, BoundaryShares)
HoverSeries ==
    { <<HoverPoint(1), HoverPoint(5), HoverPoint(10)>>,
      <<HoverPoint(1), HoverPoint(5)>>, <<HoverPoint(1), HoverPoint(10)>>,
      <<HoverPoint(5), HoverPoint(10)>>,
      <<HoverPoint(1)>>, <<HoverPoint(5)>>, <<HoverPoint(10)>> }
HoverDates == ((HoverBase + 1) * 24 - 36)..((HoverBase + 10) * 24 + 36)

InitHover ==
    /\ pc = "hover"
    /\ EwmaIdle /\ NormIdle /\ PageIdle
    /\ utcOffset \in TimeZones
    /\ now = ChartToday * 24 + 12 - utcOffset
    /\ startDate = 0
    /\ drawnSeries \in HoverSeries
    /\ filteredData = drawnSeries
    /\ hoverDate = 0 /\ hovered = null
    /\ zoomLevel = 3 /\ averagedData = <<>> /\ filteredAveragedData = <<>>
    /\ region = "federal" /\ renderedRegion = "none"
    /\ loading = TRUE /\ error = nullError /\ rawData = <<>>
    /\ dimensions = 0 /\ tooltipData = null
    /\ inFlight = <<>> /\ pending = {} /\ view = "none" /\ timer = "none"
    /\ wheelZoomLevel = null /\ svg = emptySvg
    /\ polls = <<>> /\ cRawData = <<>> /\ cPending = {}
    /\ cSvg = emptyClientSvg
    /\ cZoomLevel = 3 /\ allData = <<>>

\* the API-backed chart's mousemove handler
HoverApi ==
    /\ pc = "hover"
    /\ \E x \in HoverDates :
         /\ hoverDate' = x
         /\ hovered' = nearestPoint(drawnSeries, x, utcOffset)
    /\ pc' = "hoverApi"
    /\ UNCHANGED <<ewmaVars, normVars, envVars, pageVars, startDate,
                   apiVars, clientVars>>

\* the client-side chart's mousemove handler
HoverClient ==
    /\ pc = "hover"
    /\ \E x \in HoverDates :
         /\ hoverDate' = x
         /\ hovered' = clientNearestPoint(filteredData, x)
    /\ pc' = "hoverClient"
    /\ UNCHANGED <<ewmaVars, normVars, envVars, pageVars, startDate,
                   apiVars, clientVars>>

\* the mousemove handler of the chart that averages the polls of each date
HoverGrouped ==
    /\ pc = "hover"
    /\ \E x \in HoverDates :
         /\ hoverDate' = x
         /\ hovered' = groupedNearestPoint(drawnSeries, x, utcOffset)
    /\ pc' = "hoverGrouped"
    /\ UNCHANGED <<ewmaVars, normVars, envVars, pageVars, startDate,
                   apiVars, clientVars>>

NextHover == HoverApi \/ HoverClient \/ HoverGrouped

SpecHover == InitHover /\ [][NextHover]_vars

HoverHandled == pc \in {"hoverApi", "hoverClient"}
\* the series the handler that ran closed over, and the instant it reads
\* from a date string
HoveredSeries == IF pc = "hoverApi" THEN drawnSeries ELSE filteredData
HoverInstant(dateStr) ==
    IF pc = "hoverApi" THEN safeParseDateISO(dateStr, utcOffset)
    ELSE NewDateOfString(dateStr)

C15_TieLaterWins ==
    HoverHandled =>
        LET s == HoveredSeries
        IN  \A k \in 1..(Len(s) - 1) :
                LET t0 == HoverInstant(s[k].date)
                    t1 == HoverInstant(s[k + 1].date)
                IN  (t0 < t1 /\ hoverDate - t0 = t1 - hoverDate) =>
                        hovered = s[k + 1].date

----------------------------------------------------------------------------
(* Fetches and regions *)

\* a step in which a fetchData call for a region other than the current
\* region prop resumes after its await, the call for the current region
\* having resumed before it
ApiStaleResolve ==
    /\ pc = "api"
    /\ region = renderedRegion
    /\ \A j \in 1..Len(inFlight) : inFlight[j] # region
    /\ \E i \in 1..Len(inFlight) : inFlight' = RemoveAt(inFlight, i)

\* C17: in the API-backed chart a response that arrives for a region the
\* component has left writes none of averagedData, rawData, error and
\* loading.
C17_StaleResponseIgnored ==
    [][ApiStaleResolve =>
          UNCHANGED <<averagedData, rawData, error, loading>>]_vars

\* the series holds only rows of /api/averages/{r}
FetchedFor(series, r) ==
    \A i \in 1..Len(series) :
        \E k \in {10, 45} : series[i] = ApiPoint(r, k)

\* the fetch effect has stored its reset when it issues the requests
ResetBeforeRequest ==
    [][Len(inFlight') > Len(inFlight) =>
          /\ loading' = TRUE /\ error' = nullError
          /\ averagedData' = <<>> /\ rawData' = <<>>]_vars

\* C18: in every rendered state of the API-backed chart, a series drawn
\* while the component's region prop is r was fetched for r: after a
\* region change no series of the previous region is drawn under the new
\* region.
C18_NoStaleSeriesDrawn ==
    (pc = "api" /\ region = renderedRegion /\ view = "chart"
        /\ drawnSeries # <<>>)
    => FetchedFor(drawnSeries, region)

\* the READY state of the API-backed chart, rendered
ApiReady ==
    pc = "api" /\ view = "chart" /\ loading = FALSE /\ error = nullError

\* a wheel, zoom button, mousemove or mouseout event that changes state
ZoomOrPointerStep ==
    zoomLevel' # zoomLevel \/ tooltipData' # tooltipData

\* a commit for an unchanged region prop
RerenderStep ==
    /\ region = renderedRegion
    /\ pending' # pending /\ pending' \subseteq pending

\* C19: from READY, a zoom-level change, a pointer-move or pointer-leave
\* event, and the re-render it causes, leave the chart READY: loading stays
\* false, error stays null, no request is issued and neither the averaged
\* nor the raw series is changed.
C19_ReadyStaysReady ==
    [][(ApiReady /\ (ZoomOrPointerStep \/ RerenderStep)) =>
          /\ loading' = FALSE /\ error' = nullError /\ view' = "chart"
          /\ inFlight' = inFlight
          /\ averagedData' = averagedData /\ rawData' = rawData]_vars

C19_Witness ==
    /\ ApiReady /\ pending = {} /\ inFlight = <<>>
    /\ Len(averagedData) = 2 /\ rawData # <<>>
    /\ drawnSeries # <<>>
    /\ zoomLevel = 4 /\ tooltipData # null

\* the ERROR state: a fetchData call has stored a message since the last
\* reset of the fetch effect
ApiErrorState == pc = "api" /\ error # nullError

\* a step that is neither a region change nor the commit that follows one
SameRegionStep == region = renderedRegion /\ region' = region

\* the outstanding calls stay as they are, or one of them has resumed
NoRequestIssued ==
    \/ inFlight' = inFlight
    \/ \E i \in 1..Len(inFlight) : inFlight' = RemoveAt(inFlight, i)

\* C20: once a fetch of the API-backed chart has ended in an error, every
\* step until the region changes leaves the chart in ERROR (error set,
\* loading false, the error message rendered by each re-render) and issues
\* no request: there is no automatic retry.
C20_ErrorTerminal ==
    [][(ApiErrorState /\ SameRegionStep) =>
          /\ error' # nullError /\ loading' = FALSE
          /\ NoRequestIssued
          /\ (RerenderStep => view' = "error")]_vars

C20_Witness ==
    /\ ApiErrorState /\ view = "error" /\ loading = FALSE
    /\ pending = {} /\ region = renderedRegion
    /\ inFlight = <<>> /\ timer = "fired"
    /\ averagedData # <<>>

----------------------------------------------------------------------------
(* Error handling of the fetches *)

\* C21: when a fetchData call of the API-backed chart resumes with a
\* status that is not ok or a body that is not an array, from either
\* endpoint, it stores a message in error and false in loading and stores
\* neither series: averagedData and rawData stay as they were, which is
\* empty when no other call has resumed since the reset.
C21_FailedFetchStoresNothing ==
    [][(pc = "api" /\ Len(inFlight') < Len(inFlight)) =>
          \A i \in 1..Len(inFlight) :
             \A resp \in FailedResponses(inFlight[i]) :
                (~resp.rejected /\ fetchDataResume(i, resp)) =>
                   /\ error' # nullError /\ loading' = FALSE
                   /\ averagedData' = averagedData /\ rawData' = rawData
                   /\ loading => averagedData' = <<>> /\ rawData' = <<>>]_vars

C21_Witness ==
    /\ pc = "api" /\ view = "error" /\ pending = {} /\ inFlight = <<>>
    /\ error = "Invalid raw data format" /\ loading = FALSE
    /\ averagedData = <<>> /\ rawData = <<>>

----------------------------------------------------------------------------
(* Polls table: the component as a state machine, with the steps of the    *)
(* API-backed chart: a commit, a region change by the parent, the rest of  *)
(* a fetchPolls call after its await, a click on a pagination button.      *)

itemsPerPage == 10
maxVisiblePages == 3

\* bodies of /api/polls/{region} for the table: no rows, two rows in
\* ascending order, and rows for two pages
TableRow(k) == Poll(ChartToday - k, BoundaryShares)
TableBodies ==
    { <<>>, <<TableRow(45), TableRow(10)>>,
      SubSeq([i \in 1..(itemsPerPage + 1) |-> TableRow(60 - i)],
             1, itemsPerPage + 1) }

\* what the awaited response can be: a rejected fetch, a status that is not
\* ok, a body that is not an array, or an array
TableResponse(rej, isOk, isArr, rows) ==
    [rejected |-> rej, ok |-> isOk, isArray |-> isArr, data |-> rows]
TableResponses ==
    {TableResponse(TRUE, TRUE, TRUE, <<>>),
     TableResponse(FALSE, FALSE, TRUE, <<>>),
     TableResponse(FALSE, TRUE, FALSE, <<>>)}
    \cup {TableResponse(FALSE, TRUE, TRUE, b) : b \in TableBodies}

\* a fetchPolls that throws on an array without rows
fetchPollsErrorOnEmpty(resp) ==
    IF resp.rejected THEN "Failed to fetch"
    ELSE IF ~resp.ok THEN "Failed to fetch polls"
    ELSE IF ~resp.isArray THEN "Invalid data format received"
    ELSE IF Len(resp.data) = 0 THEN "No polls received"
    ELSE nullError

\* the message the catch block stores, or nullError when nothing is thrown
fetchPollsError(resp) ==
    IF resp.rejected THEN "Failed to fetch"
    ELSE IF ~resp.ok THEN "Failed to fetch polls"
    ELSE IF ~resp.isArray THEN "Invalid data format received"
    ELSE nullError

\* data.sort((a, b) => new Date(b.date).getTime() - new Date(a.date).getTime())
sortedPollsNewestFirst(rows) ==
    Permute(rows,
            SortOrder([i \in 1..Len(rows) |-> -NewDateOfString(rows[i].date)]))

\* what the component function returns: "loading" is Loading polls...,
\* "error" the error message, "empty" No polls found for this region.
tableReturns(isLoading, err, ps) ==
    (IF isLoading THEN {"loading"} ELSE {})
    \cup (IF err # nullError THEN {"error"} ELSE {})
    \cup (IF ~isLoading /\ err = nullError /\ Len(ps) = 0
          THEN {"empty"} ELSE {})
    \cup (IF ~isLoading /\ err = nullError /\ Len(ps) > 0
          THEN {"table"} ELSE {})

\* Math.max(1, Math.ceil(polls.length / itemsPerPage))
totalPages(ps) ==
    LET n == (Len(ps) + itemsPerPage - 1) \div itemsPerPage
    IN  IF n > 1 THEN n ELSE 1

getPageNumbers(cur, total) ==
    IF total <= maxVisiblePages THEN 1..total
    ELSE IF cur <= 2 THEN 1..maxVisiblePages
    ELSE IF cur >= total - 1 THEN (total - maxVisiblePages + 1)..total
    ELSE (cur - 1)..(cur + 1)

tableFrame ==
    <<pc, ewmaVars, normVars, envVars, hoverVars, startDate, zoomLevel,
      averagedData, filteredAveragedData, rawData, dimensions, tooltipData,
      view, timer, drawnSeries, wheelZoomLevel, svg, cZoomLevel, cRawData,
      allData, filteredData, cPending, cSvg, latestData, errorLatest,
      loadingLatest>>

InitTable ==
    /\ pc = "table"
    /\ EwmaIdle /\ NormIdle /\ HoverIdle
    /\ now = 0 /\ utcOffset = 0 /\ startDate = 0
    /\ zoomLevel = 3 /\ averagedData = <<>> /\ filteredAveragedData = <<>>
    /\ rawData = <<>> /\ dimensions = 0 /\ tooltipData = null
    /\ view = "none" /\ timer = "none"
    /\ drawnSeries = <<>> /\ wheelZoomLevel = null /\ svg = emptySvg
    /\ cRawData = <<>> /\ cPending = {} /\ cSvg = emptyClientSvg
    /\ cZoomLevel = 3 /\ allData = <<>> /\ filteredData = <<>>
    /\ latestData = nullLatestData
    /\ errorLatest = nullError /\ loadingLatest = TRUE
    /\ region \in Regions /\ renderedRegion = "none"
    /\ polls = <<>> /\ loading = TRUE /\ error = nullError
    /\ currentPage = 1
    /\ inFlight = <<>> /\ pending = {"render"} /\ shown = {}

\* one commit: the component function, then the effect on [region]
TableCommit ==
    /\ pc = "table"
    /\ pending # {} \/ region # renderedRegion
    /\ shown' = tableReturns(loading, error, polls)
    /\ renderedRegion' = region
    /\ IF region # renderedRegion
       THEN /\ loading' = TRUE
            /\ error' = nullError
            /\ polls' = <<>>
            /\ currentPage' = 1
            /\ inFlight' = Append(inFlight, region)
            /\ pending' = {"render"}
       ELSE /\ pending' = {}
            /\ UNCHANGED <<loading, error, polls, currentPage, inFlight>>
    /\ UNCHANGED <<tableFrame, region>>

\* a region prop change by the parent
TableRegionChange ==
    /\ pc = "table"
    /\ Committed
    /\ Len(inFlight) < MaxInFlight
    /\ \E r \in Regions \ {region} : region' = r
    /\ UNCHANGED <<tableFrame, renderedRegion, loading, error, polls,
                   currentPage, inFlight, pending, shown>>

\* the rest of call i of fetchPolls, from the await on, for the response
\* resp; nothing tells a call for an earlier region from the latest one
fetchPollsResume(i, resp) ==
    LET err == fetchPollsError(resp)
    IN  /\ inFlight' = RemoveAt(inFlight, i)
        /\ IF err = nullError
           THEN polls' = sortedPollsNewestFirst(resp.data) /\ error' = error
           ELSE error' = err /\ polls' = polls
        /\ loading' = FALSE
        /\ pending' = pending \cup {"render"}

TableFetchResolve ==
    /\ pc = "table"
    /\ Committed
    /\ \E i \in 1..Len(inFlight) : \E resp \in TableResponses :
         fetchPollsResume(i, resp)
    /\ UNCHANGED <<tableFrame, region, renderedRegion, currentPage, shown>>

\* the Previous, Next and page number buttons of the rendered table, which
\* has them when there is more than one page
TablePageClick ==
    /\ pc = "table"
    /\ Committed
    /\ "table" \in shown
    /\ totalPages(polls) > 1
    /\ \/ currentPage # 1 /\ currentPage' = currentPage - 1
       \/ currentPage # totalPages(polls) /\ currentPage' = currentPage + 1
       \/ \E pageNum \in getPageNumbers(currentPage, totalPages(polls)) :
             currentPage' = pageNum
    /\ pending' = IF currentPage' # currentPage THEN pending \cup {"render"}
                  ELSE pending
    /\ UNCHANGED <<tableFrame, region, renderedRegion, loading, error, polls,
                   inFlight, shown>>

NextTable ==
    \/ TableCommit
    \/ TableRegionChange
    \/ TableFetchResolve
    \/ TablePageClick

SpecTable == InitTable /\ [][NextTable]_vars

\* the API-backed chart and the polls table, each mounted on its own
InitFetches == InitApi \/ InitTable
NextFetches == NextApi \/ NextTable
SpecFetches == InitFetches /\ [][NextFetches]_vars

\* a fetchPolls call resumes with an empty array, no other call having
\* resumed since the reset
TableResumesWithNoRows ==
    /\ pc = "table" /\ loading
    /\ \E i \in 1..Len(inFlight) :
          fetchPollsResume(i, TableResponse(FALSE, TRUE, TRUE, <<>>))

\* a fetchData call resumes with an empty averaged array, no other call
\* having resumed since the reset
ChartResumesWithNoRows ==
    /\ pc = "api" /\ loading
    /\ \E i \in 1..Len(inFlight) : \E p \in RawPayloads :
          fetchDataResume(i, Response(FALSE, TRUE, TRUE, TRUE, TRUE, <<>>, p))

\* the table has rendered a fetch that ended without rows and without error
TableShowsPlaceholder ==
    (pc = "table" /\ Committed /\ ~loading /\ error = nullError
        /\ polls = <<>>)
    => shown = {"empty"}

\* the chart has rendered a fetch that ended without averaged rows and
\* without error
ChartDrawsNothing ==
    (pc = "api" /\ Committed /\ ~loading /\ error = nullError
        /\ averagedData = <<>>)
    => (view = "chart" /\ svg = emptySvg /\ drawnSeries = <<>>)

C22_Witness ==
    /\ pc = "api" /\ Committed /\ inFlight = <<>>
    /\ ~loading /\ error = nullError /\ averagedData = <<>>
    /\ rawData # <<>> /\ dimensions # 0
    /\ view = "chart" /\ svg = emptySvg

\* the effect has issued the request for the region prop and a fetchPolls
\* call for that region has not resumed
TableFetchOutstanding ==
    /\ pc = "table" /\ region = renderedRegion
    /\ \E i \in 1..Len(inFlight) : inFlight[i] = region

\* C30: in every state of the polls table in which a fetch for the current
\* region is outstanding, loading is true and the last render does not
\* show the No polls found placeholder.
C30_LoadingWhileOutstanding ==
    TableFetchOutstanding => (loading /\ "empty" \notin shown)

----------------------------------------------------------------------------
(* Polls container: the region state, set from the location hash, and the  *)
(* fetch of /api/latest/{region}.  Each fetchLatestData call closes over   *)
(* the isMounted flag of the effect run that made it; the cleanup of that  *)
(* run, at the commit for the next region, clears the flag.  A response    *)
(* may arrive between setRegion and that commit.                           *)

\* the region state before the hash has been read
nullRegion == "none"

\* the body of /api/latest/{region}
LatestPayload(r) ==
    [latestValues |-> RegionShares(r, BoundaryShares),
     changes |-> RegionShares(r, LowShares)]

\* what the awaited response can be: a rejected fetch, a status that is
\* not ok, or a body
LatestResponses(r) ==
    {[rejected |-> TRUE, ok |-> TRUE, data |-> nullLatestData],
     [rejected |-> FALSE, ok |-> FALSE, data |-> nullLatestData],
     [rejected |-> FALSE, ok |-> TRUE, data |-> LatestPayload(r)]}

fetchLatestDataError(resp) ==
    IF resp.rejected THEN "Failed to fetch"
    ELSE IF ~resp.ok THEN "Failed to fetch latest data"
    ELSE nullError

\* what the component function returns
pollsReturns(reg, isLoading, err) ==
    IF reg = nullRegion THEN {"loading region"}
    ELSE (IF isLoading THEN {"loading"} ELSE {})
         \cup (IF err # nullError THEN {"error"} ELSE {})
         \cup (IF ~isLoading /\ err = nullError THEN {"latest"} ELSE {})

latestFrame ==
    <<pc, ewmaVars, normVars, envVars, hoverVars, startDate, zoomLevel,
      averagedData, filteredAveragedData, rawData, dimensions, tooltipData,
      view, timer, drawnSeries, wheelZoomLevel, svg, clientVars, loading,
      error, currentPage>>

InitLatest ==
    /\ pc = "latest"
    /\ EwmaIdle /\ NormIdle /\ HoverIdle
    /\ now = 0 /\ utcOffset = 0 /\ startDate = 0
    /\ zoomLevel = 3 /\ averagedData = <<>> /\ filteredAveragedData = <<>>
    /\ rawData = <<>> /\ dimensions = 0 /\ tooltipData = null
    /\ view = "none" /\ timer = "none"
    /\ drawnSeries = <<>> /\ wheelZoomLevel = null /\ svg = emptySvg
    /\ polls = <<>> /\ cRawData = <<>> /\ cPending = {}
    /\ cSvg = emptyClientSvg
    /\ cZoomLevel = 3 /\ allData = <<>> /\ filteredData = <<>>
    /\ loading = TRUE /\ error = nullError /\ currentPage = 1
    /\ region = nullRegion /\ renderedRegion = nullRegion
    /\ latestData = nullLatestData
    /\ errorLatest = nullError /\ loadingLatest = TRUE
    /\ inFlight = <<>> /\ pending = {"render"} /\ shown = {}

\* the cleanup of the previous run of the effect on [region]
clearIsMounted(calls) ==
    SubSeq([i \in 1..Len(calls) |-> [calls[i] EXCEPT !.isMounted = FALSE]],
           1, Len(calls))

\* an effect whose cleanup leaves the flags alone
LatestCommitWithoutCleanup ==
    /\ pc = "latest"
    /\ pending # {} \/ region # renderedRegion
    /\ shown' = pollsReturns(region, loadingLatest, errorLatest)
    /\ renderedRegion' = region
    /\ IF region # renderedRegion
       THEN /\ loadingLatest' = TRUE
            /\ errorLatest' = nullError
            /\ latestData' = nullLatestData
            /\ inFlight' = Append(inFlight,
                                  [region |-> region, isMounted |-> TRUE])
            /\ pending' = {"render"}
       ELSE /\ pending' = {}
            /\ UNCHANGED <<loadingLatest, errorLatest, latestData, inFlight>>
    /\ UNCHANGED <<latestFrame, region>>

\* one commit: the component function, then, when region changed, the
\* cleanup of the effect's previous run and its new run
LatestCommit ==
    /\ pc = "latest"
    /\ pending # {} \/ region # renderedRegion
    /\ shown' = pollsReturns(region, loadingLatest, errorLatest)
    /\ renderedRegion' = region
    /\ IF region # renderedRegion
       THEN /\ loadingLatest' = TRUE
            /\ errorLatest' = nullError
            /\ latestData' = nullLatestData
            /\ inFlight' = Append(clearIsMounted(inFlight),
                                  [region |-> region, isMounted |-> TRUE])
            /\ pending' = {"render"}
       ELSE /\ pending' = {}
            /\ UNCHANGED <<loadingLatest, errorLatest, latestData, inFlight>>
    /\ UNCHANGED <<latestFrame, region>>

\* updateRegionFromHash: setRegion(newRegion), at mount and on hashchange
LatestSetRegion ==
    /\ pc = "latest"
    /\ region = renderedRegion
    /\ Len(inFlight) < MaxInFlight
    /\ \E newRegion \in Regions \ {region} : region' = newRegion
    /\ UNCHANGED <<latestFrame, renderedRegion, latestData, errorLatest,
                   loadingLatest, inFlight, pending, shown>>

\* the rest of call i of fetchLatestData, from the await on
fetchLatestDataResume(i, resp) ==
    LET err == fetchLatestDataError(resp)
        isMounted == inFlight[i].isMounted
    IN  /\ inFlight' = RemoveAt(inFlight, i)
        /\ latestData' = IF isMounted /\ err = nullError THEN resp.data
                         ELSE latestData
        /\ errorLatest' = IF isMounted /\ err # nullError THEN err
                          ELSE errorLatest
        /\ loadingLatest' = IF isMounted THEN FALSE ELSE loadingLatest
        /\ pending' = IF isMounted THEN pending \cup {"render"} ELSE pending

LatestFetchResolve ==
    /\ pc = "latest"
    /\ \E i \in 1..Len(inFlight) :
         \E resp \in LatestResponses(inFlight[i].region) :
            fetchLatestDataResume(i, resp)
    /\ UNCHANGED <<latestFrame, region, renderedRegion, shown>>

NextLatest ==
    \/ LatestCommit
    \/ LatestSetRegion
    \/ LatestFetchResolve

SpecLatest == InitLatest /\ [][NextLatest]_vars

\* a fetchLatestData call resumes after the cleanup of its effect run
CleanedUpCallResumes ==
    /\ pc = "latest"
    /\ \E i \in 1..Len(inFlight) :
          ~inFlight[i].isMounted /\ inFlight' = RemoveAt(inFlight, i)

\* a fetchLatestData call for another region than the region state resumes
OtherRegionCallResumes ==
    /\ pc = "latest"
    /\ \E i \in 1..Len(inFlight) :
          inFlight[i].region # region /\ inFlight' = RemoveAt(inFlight, i)

LatestIsNullOrFor(r) == latestData \in {nullLatestData, LatestPayload(r)}

----------------------------------------------------------------------------
(* The API-backed chart over rows whose date does not parse: the zoom      *)
(* filter effect and then the render effect, on averaged rows and raw      *)
(* polls of which any may carry a date that d3.timeParse rejects.          *)

\* rows of /api/averages and of /api/polls: the row with the unparseable
\* date has the largest share of its array
DatedAvgRows ==
    { AveragedDataPoint(InvalidDateString, HighRawShares),
      AveragedDataPoint(ChartToday - 45, BoundaryShares),
      AveragedDataPoint(ChartToday - 10, LowShares) }
DatedRawRows ==
    { RawPoll(InvalidDateString, HighRawShares),
      RawPoll(ChartToday - 30, BoundaryShares),
      RawPoll(ChartToday - 10, LowRawShares) }
MaxDatedRows == 2
DatedArrays(rows) ==
    UNION {[1..n -> rows] : n \in 0..MaxDatedRows}

datesFrame ==
    <<ewmaVars, normVars, envVars, hoverVars, pageVars, clientVars,
      region, renderedRegion, loading, error, tooltipData, inFlight,
      pending, view, timer>>

InitDates ==
    /\ pc = "dates"
    /\ EwmaIdle /\ NormIdle /\ HoverIdle /\ PageIdle
    /\ utcOffset \in ApiTimeZones
    /\ now = ChartToday * 24 + 12 - utcOffset
    /\ startDate = 0
    /\ region = "federal" /\ renderedRegion = "federal"
    /\ zoomLevel \in 0..4
    /\ averagedData \in DatedArrays(DatedAvgRows)
    /\ rawData \in DatedArrays(DatedRawRows)
    /\ filteredAveragedData = <<>>
    /\ loading = FALSE /\ error = nullError
    /\ dimensions = dimensionsWidth /\ tooltipData = null
    /\ inFlight = <<>> /\ view = "chart" /\ timer = "fired"
    /\ pending = {}
    /\ drawnSeries = <<>> /\ wheelZoomLevel = null /\ svg = emptySvg
    /\ polls = <<>> /\ cRawData = <<>> /\ cPending = {}
    /\ cSvg = emptyClientSvg
    /\ cZoomLevel = 3 /\ allData = <<>> /\ filteredData = <<>>

\* the zoom filter effect on the fetched rows
DatesFilterEffect ==
    /\ pc = "dates"
    /\ filteredAveragedData' =
           apiZoomFilter(averagedData, zoomLevel, now, utcOffset)
    /\ startDate' = IF Len(averagedData) # 0
                    THEN apiStartDate(zoomLevel, now, utcOffset)
                    ELSE startDate
    /\ pc' = "datesFiltered"
    /\ UNCHANGED <<datesFrame, zoomLevel, averagedData, rawData, dimensions,
                   drawnSeries, wheelZoomLevel, svg>>

\* the render effect on the filtered series
DatesRenderEffect ==
    /\ pc = "datesFiltered"
    /\ LET canDraw == Len(filteredAveragedData) # 0 /\ dimensions # 0
       IN  /\ drawnSeries' = IF canDraw THEN filteredAveragedData ELSE <<>>
           /\ wheelZoomLevel' = IF canDraw THEN zoomLevel ELSE null
           /\ svg' = IF canDraw
                     THEN drawChart(filteredAveragedData, rawData, utcOffset)
                     ELSE emptySvg
    /\ pc' = "datesDrawn"
    /\ UNCHANGED <<datesFrame, startDate, zoomLevel, averagedData, rawData,
                   filteredAveragedData, dimensions>>

NextDates == DatesFilterEffect \/ DatesRenderEffect

SpecDates == InitDates /\ [][NextDates]_vars

\* the rows of an array whose date is a date
HasDate(d) == d.date # InvalidDateString
RowsWithDate(rows) == SelectSeq(rows, HasDate)

\* C23: in the API-backed chart a row whose date fails to parse is in
\* neither the filtered series nor the markers nor the x domain nor the
\* input of the y ceiling, and the rows with a valid date are processed as
\* they are without it: the filtered series and the drawing are those of
\* the same arrays without the rows that fail to parse.
C23_UnparseableRowsExcluded ==
    pc = "datesDrawn" =>
        /\ \A i \in 1..Len(filteredAveragedData) :
              HasDate(filteredAveragedData[i])
        /\ \A i \in 1..Len(svg.relevantRawData) :
              HasDate(svg.relevantRawData[i])
        /\ filteredAveragedData =
               apiZoomFilter(RowsWithDate(averagedData), zoomLevel, now,
                             utcOffset)
        /\ svg = IF Len(filteredAveragedData) = 0 THEN emptySvg
                 ELSE drawChart(RowsWithDate(filteredAveragedData),
                                RowsWithDate(rawData), utcOffset)

\* both arrays hold a row that fails to parse beside a row that is drawn
C23_Witness ==
    /\ pc = "datesDrawn"
    /\ \E i \in 1..Len(averagedData) : ~HasDate(averagedData[i])
    /\ \E i \in 1..Len(rawData) : ~HasDate(rawData[i])
    /\ Len(filteredAveragedData) = 1
    /\ Len(svg.relevantRawData) = 1
    /\ svg.finalYMax = 30

----------------------------------------------------------------------------
(* A series of one point under the pointer *)

\* the pointer date the x scale of a one-point series inverts every
\* position to: the instant of the point
OverSinglePoint ==
    /\ pc \in {"hoverApi", "hoverClient", "hoverGrouped"}
    /\ Len(drawnSeries) = 1
    /\ hoverDate = (IF pc = "hoverClient"
                    THEN NewDateOfString(drawnSeries[1].date)
                    ELSE d3TimeParse(drawnSeries[1].date, utcOffset))

\* C24: a pointer-move over a chart drawn from a single averaged point
\* ends without an exception in each of the three charts whose mousemove
\* handler performs a bisect lookup.
C24_SingleRowNeverThrows == OverSinglePoint => hovered # TypeError

----------------------------------------------------------------------------
(* The client-side smoothing chart with its wheel handler, one commit at a *)
(* time: the component function runs on the state of the commit, then the  *)
(* effects whose dependencies changed run in source order on that same     *)
(* state, and what they set asks for the next commit.  dimensions and      *)
(* wheelZoomLevel are this chart's dimensions state and the zoomLevel its  *)
(* registered wheel handler closed over.                                   *)

MaxZoomPolls == 2

InitClientZoom ==
    /\ pc = "clientZoom"
    /\ EwmaIdle /\ NormIdle /\ HoverIdle /\ PageIdle
    /\ utcOffset \in TimeZones
    /\ now = ChartToday * 24 + 12 - utcOffset
    /\ startDate = 0
    /\ zoomLevel = 3 /\ averagedData = <<>> /\ filteredAveragedData = <<>>
    /\ ApiUnmounted
    /\ polls \in SeqsUpTo(ChartPolls, MaxZoomPolls)
    /\ cZoomLevel = 3 /\ cRawData = <<>> /\ allData = <<>>
    /\ filteredData = <<>>
    /\ cPending = {"dimensions", "process", "filter", "render"}
    /\ cSvg = emptyClientSvg

clientZoomFrame ==
    <<pc, ewmaVars, normVars, envVars, hoverVars, pageVars, zoomLevel,
      averagedData, filteredAveragedData, region, renderedRegion, loading,
      error, rawData, tooltipData, inFlight, pending, view, timer,
      drawnSeries, svg, polls>>

\* one commit of the client-side chart
ClientZoomCommit ==
    /\ pc = "clientZoom"
    /\ cPending # {}
    /\ LET runDimensions == "dimensions" \in cPending
           processSets == "process" \in cPending /\ Len(polls) # 0
           filterSets == "filter" \in cPending /\ Len(allData) # 0
           runRender == "render" \in cPending
           canDraw == Len(filteredData) # 0 /\ dimensions # 0
       IN  \* dimensions effect, []
           /\ dimensions' = IF runDimensions THEN dimensionsWidth
                            ELSE dimensions
           \* process polls effect, [polls]
           /\ cRawData' = IF processSets THEN polls ELSE cRawData
           /\ allData' = IF processSets THEN ewmaData(polls, utcOffset)
                         ELSE allData
           \* zoom filter effect, [allData, zoomLevel]
           /\ filteredData' =
                  IF filterSets
                  THEN clientZoomFilter(allData, cZoomLevel, now, utcOffset,
                                        filteredData)
                  ELSE filteredData
           /\ startDate' =
                  IF filterSets
                  THEN clientStartDate(cZoomLevel, now, utcOffset)
                  ELSE startDate
           \* render effect, [filteredData, dimensions, region, rawData,
           \* zoomLevel, showBloc], after the cleanup of its previous run:
           \* the early return leaves the svg as it is and registers nothing
           /\ cSvg' = IF runRender /\ canDraw
                      THEN clientDrawChart(filteredData, cRawData)
                      ELSE cSvg
           /\ wheelZoomLevel' =
                  IF runRender
                  THEN IF canDraw THEN cZoomLevel ELSE null
                  ELSE wheelZoomLevel
           /\ cPending' =
                  (IF runDimensions THEN {"render"} ELSE {})
                  \cup (IF processSets THEN {"filter", "render"} ELSE {})
                  \cup (IF filterSets THEN {"render"} ELSE {})
    /\ UNCHANGED <<clientZoomFrame, cZoomLevel>>

\* the wheel handler of the client-side chart: the bounds are tested on
\* the zoomLevel of the render that registered the handler, the update is
\* applied to the latest
clientWheelZoom(captured, prev, deltaY) ==
    IF deltaY < 0 /\ captured < 4 THEN prev + 1
    ELSE IF deltaY > 0 /\ captured > 1 THEN prev - 1
    ELSE prev

ClientWheel ==
    /\ pc = "clientZoom"
    /\ wheelZoomLevel # null
    /\ \E deltaY \in {-100, 100} :
         cZoomLevel' = clientWheelZoom(wheelZoomLevel, cZoomLevel, deltaY)
    /\ Abs(cZoomLevel' - wheelZoomLevel) <= MaxBurst
    /\ cPending' = IF cZoomLevel' # cZoomLevel
                   THEN cPending \cup {"filter", "render"}
                   ELSE cPending
    /\ UNCHANGED <<clientZoomFrame, startDate, dimensions, wheelZoomLevel,
                   cRawData, allData, filteredData, cSvg>>

NextClientZoom == ClientZoomCommit \/ ClientWheel

SpecClientZoom == InitClientZoom /\ [][NextClientZoom]_vars

\* both charts, each with its zoom controls
InitZoomCharts == InitApi \/ InitClientZoom
NextZoomCharts == NextApi \/ NextClientZoom
SpecZoomCharts == InitZoomCharts /\ [][NextZoomCharts]_vars

\* a chart whose last commit left nothing to do
ApiSettled == pc = "api" /\ Committed /\ view = "chart"
ClientSettled == pc = "clientZoom" /\ cPending = {}

\* C25: in the API-backed chart and in the client-side smoothing chart,
\* once the commits that follow a zoom filter with an empty result are
\* done the svg holds no chart: the render step has drawn nothing and has
\* removed what was drawn for the previous zoom level or data.
C25_EmptySeriesClearsChart ==
    /\ (ApiSettled /\ filteredAveragedData = <<>>) => svg = emptySvg
    /\ (ClientSettled /\ filteredData = <<>>) => cSvg = emptyClientSvg

\* C26: the zoom level stays inside 0..4 in the API-backed chart and inside
\* 1..4 in the client-side chart, whatever the interleaving of wheel
\* events, zoom buttons and commits, several wheel events between two
\* commits included.
C26_ZoomLevelInRange ==
    /\ pc = "api" => zoomLevel \in 0..4
    /\ pc = "clientZoom" => cZoomLevel \in 1..4

\* C27: whenever a chart with a non-empty averaged series and a measured
\* wrapper has committed, a wheel handler is registered, at every zoom
\* level, one whose window holds no point included.
C27_WheelHandlerAlwaysRegistered ==
    /\ (ApiSettled /\ averagedData # <<>> /\ dimensions # 0)
           => wheelZoomLevel # null
    /\ (ClientSettled /\ allData # <<>> /\ dimensions # 0)
           => wheelZoomLevel # null

----------------------------------------------------------------------------
(* The process polls effect of the client-side smoothing chart, seen at    *)
(* one entry of dateMap: data is the effect's sorted array, dataPoint the  *)
(* entry handed to normalizeVoteShare and normalizedDataPoint what the     *)
(* call returns.                                                           *)

\* polls of two dates, with either row of shares
MaxSameDayPolls == 3
SameDayPolls ==
    {Poll(d, s) : d \in {ChartToday - 45, ChartToday - 10}, s \in ChartShares}

sameDayFrame ==
    <<party, smoothingFactor, result, ascData, ascResult, envVars, hoverVars,
      pageVars, startDate, apiVars, polls, cZoomLevel, filteredData, cPending,
      cSvg>>

InitSameDay ==
    /\ pc = "sameDay"
    /\ EwmaIdle /\ NormIdle /\ HoverIdle /\ PageIdle
    /\ utcOffset \in TimeZones
    /\ now = ChartToday * 24 + 12 - utcOffset
    /\ startDate = 0
    /\ zoomLevel = 3 /\ averagedData = <<>> /\ filteredAveragedData = <<>>
    /\ ApiUnmounted
    /\ polls \in SeqsUpTo(SameDayPolls, MaxSameDayPolls)
    /\ cZoomLevel = 3 /\ cRawData = <<>> /\ allData = <<>>
    /\ filteredData = <<>>
    /\ cPending = {"process", "filter", "render"}
    /\ cSvg = emptyClientSvg

\* useEffect(..., [polls]) on a non-empty poll list, with the k-th call of
\* normalizeVoteShare in view
ProcessPollsEffect ==
    /\ pc = "sameDay"
    /\ Len(polls) # 0
    /\ LET sorted == parsedSortedPolls(polls, utcOffset)
           dateMap == ewmaDateMap(sorted)
       IN  /\ data' = sorted
           /\ \E k \in 1..Len(dateMap) :
                /\ dataPoint' = dateMap[k]
                /\ normalizedDataPoint' = normalizeVoteShare(dateMap[k])
    /\ cRawData' = polls
    /\ allData' = ewmaData(polls, utcOffset)
    /\ pc' = "sameDayDone"
    /\ UNCHANGED sameDayFrame

NextSameDay == ProcessPollsEffect

SpecSameDay == InitSameDay /\ [][NextSameDay]_vars

\* the polls in ascending order of date, polls of one date in the order
\* in which the list has them
InsertAfterEqual(sorted, x) ==
    LET n == Cardinality({i \in 1..Len(sorted) : sorted[i].date <= x.date})
    IN  SubSeq(sorted, 1, n) \o <<x>> \o SubSeq(sorted, n + 1, Len(sorted))
RECURSIVE StableByDate(_)
StableByDate(ps) ==
    IF ps = <<>> THEN <<>>
    ELSE InsertAfterEqual(StableByDate(SubSeq(ps, 1, Len(ps) - 1)),
                          ps[Len(ps)])

\* the EWMA of a party after the first n observations, each observation
\* advancing the recurrence once
RECURSIVE EwmaAfter(_, _, _)
EwmaAfter(obs, p, n) ==
    IF n = 1 THEN Rat(obs[1][p])
    ELSE LET previous == EwmaAfter(obs, p, n - 1)
         IN  RAdd(previous,
                  RMul(<<1, 4>>, RSub(Rat(obs[n][p]), previous)))

\* C28: in the client-side smoothing chart the polls are fed to the EWMA
\* in stable date order, each poll of a shared date as an observation of
\* its own, and the one averaged point of a date holds for every party,
\* before normalization, the EWMA after the last poll of that date; the
\* series has that point, normalized, once.
C28_SameDayPolicy ==
    pc = "sameDayDone" =>
        LET obs == StableByDate(polls)
            ofDate == {i \in 1..Len(obs) : obs[i].date = dataPoint.date}
            last == CHOOSE i \in ofDate : \A j \in ofDate : j <= i
        IN  /\ data = obs
            /\ \A p \in PartyKey : dataPoint[p] = EwmaAfter(obs, p, last)
            /\ Cardinality({k \in 1..Len(allData) :
                               allData[k].date = dataPoint.date}) = 1
            /\ \E k \in 1..Len(allData) : allData[k] = normalizedDataPoint

\* an earlier poll, then two polls of one later date with different
\* liberal shares: the point of the later date is in view
C28_Witness ==
    /\ pc = "sameDayDone"
    /\ Len(polls) = 3
    /\ polls[1].date < polls[2].date /\ polls[2].date = polls[3].date
    /\ polls[2].liberal # polls[3].liberal
    /\ dataPoint.date = polls[3].date

====
